---- MODULE Spec2Model ----
(***************************************************************************)
(* JARVIS agent substrate: the orchestrator's registry and health monitor, *)
(* its workflow dispatcher, and the base agent runtime (connect, consume,  *)
(* announce, stop), over a broker with one fanout exchange and one durable *)
(* queue per identity.                                                     *)
(*                                                                         *)
(* Three specifications share the definitions below:                       *)
(*   Spec          the orchestrator: lifecycle, message handling, sweep    *)
(*   SpecDispatch  execute_distributed_task and its workflow sends         *)
(*   SpecAgent     one agent runtime and the orchestrator's consumer over  *)
(*                 the broker's queues                                     *)
(***************************************************************************)
EXTENDS Integers, Sequences, FiniteSets, TLC

(* ------------------------------ bounds --------------------------------- *)

\* The clock stops advancing at MaxTime.
MaxTime == 602

\* The registry is checked on the first RosterSize identities of the roster.
RosterSize == 2

\* At most MaxHandled messages are delivered to the orchestrator in a run of Spec.
MaxHandled == 2

\* Other publishers send at most MaxEnv messages in a run of SpecAgent.
MaxEnv == 2

\* Other code calls a method of the agent object at most MaxCalls times.
MaxCalls == 1

(* --------------------------- program constants ------------------------- *)

\* orchestrator.py:235  silence_time > 300
SilenceThreshold == 300

\* orchestrator.py:212  asyncio.sleep(30)
SleepInterval == 30

\* orchestrator.py:58-66
FullRoster ==
  << "photo-agent", "marketing-agent", "social-media-agent", "crm-agent",
     "calendar-agent", "finance-agent", "task-agent" >>

expected_agents == SubSeq(FullRoster, 1, RosterSize)

Roster == { expected_agents[i] : i \in 1..Len(expected_agents) }

\* last_seen before any message of the identity was handled (Python's None)
None == -1

(* ------------------------------ JSON values ---------------------------- *)

\* A message body is what json.loads makes of it: a dict, another JSON value
\* (here an array), or no JSON at all.
Get(obj, key, default) == IF key \in DOMAIN obj THEN obj[key] ELSE default

Broadcast(event_type, agent_source) ==
  [ json |-> "object",
    obj |-> [ event_type |-> event_type, agent_source |-> agent_source ] ]

NotJson == [ json |-> "invalid", obj |-> [ x \in {} |-> "" ] ]

JsonArray == [ json |-> "array", obj |-> [ x \in {} |-> "" ] ]

NoSource == [ json |-> "object", obj |-> [ event_type |-> "agent.started" ] ]

\* json.loads(message.body.decode()) followed by the .get calls of the handler:
\* raises on a body that is no JSON, and on a JSON value that has no .get.
Decodes(body) == body.json = "object"

(* -------------------------------- broker ------------------------------- *)

\* base_agent.py:104 and orchestrator.py:423: the queue of an identity
QueueName(identity) == identity \o ".queue"

\* orchestrator.py:141-144
ManagementQueue == "orchestrator.management"

NoQueues == [ q \in {} |-> << >> ]

\* declare_queue(name, durable=True): creates the queue unless it exists.
DeclareQueue(qs, name) == IF name \in DOMAIN qs THEN qs ELSE (name :> << >>) @@ qs

\* An exchange declared direct: with the empty routing key both publishers use,
\* no binding matches and no queue receives the message.
Fanout_Direct(qs, bound, body) == qs

\* A publish on the fanout exchange jarvis.events: one copy to every bound queue,
\* whatever the routing key.
Fanout(qs, bound, body) ==
  [ q \in DOMAIN qs |-> IF q \in bound THEN Append(qs[q], body) ELSE qs[q] ]

\* A publish on the default exchange: to the queue whose name is the routing key;
\* the broker drops a message that no queue takes.
DirectPublish(qs, routing_key, body) ==
  IF routing_key \in DOMAIN qs
  THEN [ qs EXCEPT ![routing_key] = Append(@, body) ]
  ELSE qs

\* async with message.process(): acknowledges when the block ends normally,
\* rejects when an exception leaves it.
ProcessContext(escaped) == IF escaped THEN "reject" ELSE "ack"

(* ------------------------------- state --------------------------------- *)

VARIABLES
  now,                \* datetime.now(), in time units
  agents,             \* JarvisOrchestrator.agents: identity -> record
  system_status,      \* JarvisOrchestrator.system_status
  orch_pc,            \* where the orchestrator's main coroutine stands
  orch_conn,          \* its connection, channel and exchange attributes
  shutdown_requested, \* JarvisOrchestrator.shutdown_requested
  sweep,              \* _check_agent_health's locals: current_time and position
  wake_at,            \* when the interval sleep in progress ends
  handled,            \* messages delivered to the orchestrator so far
  last,               \* the last step taken, with the record's values before it
  sweep_due,          \* identities found silent and not yet unresponsive by this sweep
  sweep_pub,          \* agent.unresponsive broadcasts this sweep put on the exchange
  fresh,              \* found silent by this sweep, no message handled since
  prev_due,           \* found silent by the previous sweep, no message handled since
  announced,          \* identities whose present unresponsive status was broadcast
  started,            \* identities whose agent.started has been handled
  dispatch,           \* execute_distributed_task: position, task type, step, result
  outbox,             \* direct messages the broker accepted during this dispatch
  send_failed,        \* steps of this dispatch whose message was not published
  queues,             \* the broker's declared queues and their contents
  bindings,           \* queues bound to the fanout exchange jarvis.events
  agent_pc,           \* where the agent's main() stands
  agent_conn,         \* BaseAgent's connection, channel, exchange and queue
  agent_last,         \* the agent's last step
  env_sent,           \* messages other publishers have sent so far
  in_flight,          \* bodies whose callback is suspended inside process_message
  agent_hist,         \* connection attempts and direct calls counted so far
  cli,                \* JarvisCLI's connection and channel, and its disconnect calls
  wire,               \* the last envelope built, its encoding and what decoding gives
  mem,                \* MemoryManager's files, by memory type, and the clock it reads
  mem_last            \* the last call on the memory manager and what it returned

orch_vars ==
  << now, agents, system_status, orch_pc, orch_conn, shutdown_requested, sweep,
     wake_at, handled, last, sweep_due, sweep_pub, fresh, prev_due, announced,
     started >>

dispatch_vars == << dispatch, outbox, send_failed >>

broker_vars == << queues, bindings >>

agent_vars == << agent_pc, agent_conn, agent_last, env_sent, in_flight, agent_hist >>

lib_vars == << cli, wire, mem, mem_last >>

NoAgents == [ x \in {} |-> 0 ]

Step(op, id, ev, before, count) ==
  [ op |-> op, id |-> id, ev |-> ev, before |-> before, count |-> count,
    settle |-> << >> ]

NoStep == Step("init", "", "", "", 0)

(* ------------------------ orchestrator: startup ------------------------ *)

\* __init__, orchestrator.py:36-68
OrchInit ==
  /\ now = 0
  /\ agents = NoAgents
  /\ system_status = "starting"
  /\ orch_pc = "created"
  /\ orch_conn = [ connection |-> "none", channel |-> FALSE, exchange |-> FALSE ]
  /\ shutdown_requested = FALSE
  /\ sweep = [ current_time |-> 0, idx |-> 0 ]
  /\ wake_at = 0
  /\ handled = 0
  /\ last = NoStep
  /\ sweep_due = {}
  /\ sweep_pub = [ a \in Roster |-> 0 ]
  /\ fresh = {}
  /\ prev_due = {}
  /\ announced = {}
  /\ started = {}

\* A monitor that takes every identity of the roster for alive at startup.
NewRecord_Online ==
  [ status |-> "online", last_seen |-> 0, messages_received |-> 0, errors |-> 0 ]

\* The record _start_agent_monitoring creates for each identity of the roster.
NewRecord ==
  [ status |-> "expected", last_seen |-> None, messages_received |-> 0, errors |-> 0 ]

\* start() up to _connect_to_rabbitmq: the broker answers or is unreachable; a
\* failure is re-raised by start(), which sets system_status to error.
OrchConnect ==
  /\ orch_pc = "created"
  /\ \E reachable \in BOOLEAN :
       IF reachable
       THEN /\ orch_conn' = [ connection |-> "open", channel |-> TRUE, exchange |-> TRUE ]
            /\ orch_pc' = "connected"
            /\ queues' = DeclareQueue(queues, ManagementQueue)
            /\ bindings' = bindings \cup { ManagementQueue }
            /\ UNCHANGED system_status
       ELSE /\ orch_pc' = "stop"
            /\ system_status' = "error"
            /\ UNCHANGED << orch_conn, queues, bindings >>
  /\ last' = Step("connect", "", "", "", 0)
  /\ UNCHANGED << now, agents, shutdown_requested, sweep, wake_at, handled,
                  sweep_due, sweep_pub, fresh, prev_due, announced, started >>
  /\ UNCHANGED << dispatch_vars, agent_vars >>
  /\ UNCHANGED lib_vars

\* _start_agent_monitoring with nothing delivered while it registers the consumer,
\* then start() sets system_status and publishes system.started, where it is
\* suspended.
StartAgentMonitoring ==
  /\ orch_pc = "connected"
  /\ agents' = [ a \in Roster |-> NewRecord ]
  /\ system_status' = "running"
  /\ orch_pc' = "pub_started"
  /\ last' = Step("monitoring", "", "", "", 0)
  /\ UNCHANGED << now, orch_conn, shutdown_requested, sweep, wake_at, handled,
                  sweep_due, sweep_pub, fresh, prev_due, announced, started >>
  /\ UNCHANGED << dispatch_vars, broker_vars, agent_vars >>
  /\ UNCHANGED lib_vars

\* How exchange.publish in _publish_system_event can end, orchestrator.py:280.
SystemEventOutcomes ==
  IF orch_conn.connection = "open" THEN { "ok", "raised" } ELSE { "raised" }

\* The queues after the publish of one of the orchestrator's events has ended.
SystemEventDelivered(outcome, event_type) ==
  IF outcome = "ok" THEN Fanout(queues, bindings, Broadcast(event_type, "orchestrator"))
  ELSE queues

\* The publish of system.started ends (its outcome is swallowed by
\* _publish_system_event) and start() enters _main_loop.
PublishStarted(outcome) ==
  /\ orch_pc = "pub_started"
  /\ orch_pc' = "loop_top"
  /\ last' = Step("publish_started", "", "system.started", outcome, 0)
  /\ UNCHANGED << now, agents, system_status, orch_conn, shutdown_requested, sweep,
                  wake_at, handled, sweep_due, sweep_pub, fresh, prev_due, announced, started >>

\* Where the orchestrator's deliveries are drawn from Inbox, the broker's queues
\* stay out of the picture.
PublishStartedReturn ==
  /\ PublishStarted("")
  /\ UNCHANGED << dispatch_vars, broker_vars, agent_vars >>
  /\ UNCHANGED lib_vars

\* Over the broker's queues: the exchange takes system.started, or the publish raises.
SystemStartedPublished ==
  /\ \E outcome \in SystemEventOutcomes :
       /\ PublishStarted(outcome)
       /\ queues' = SystemEventDelivered(outcome, "system.started")
  /\ UNCHANGED << bindings, dispatch_vars, agent_vars >>
  /\ UNCHANGED lib_vars

(* -------------------- orchestrator: message handling ------------------- *)

\* The coroutine is suspended (an await on the broker or the timer), so a
\* delivered message's handler can run; the handler itself never suspends.
Suspended == { "pub_started", "pub_alarm", "pub_stats", "sleep", "pub_stopping" }

EventTypes == { "agent.started", "agent.stopped", "photos.processed" }

\* What the management queue can receive: the broadcasts of the rostered agents
\* and the orchestrator's own, and bodies that do not decode to an envelope.
Inbox ==
  { Broadcast(e, s) : e \in EventTypes, s \in Roster \cup { "orchestrator" } }
    \cup { NotJson, JsonArray, NoSource }

\* A handler that trusts the sweep's verdict: agent.started does not revive a record
\* the monitor has marked unresponsive.
StatusAfterEvent_KeepsAlarm(status, event_type) ==
  IF status = "unresponsive" THEN status
  ELSE IF event_type = "agent.started" THEN "online"
  ELSE IF event_type = "agent.stopped" THEN "offline"
  ELSE status

\* A handler that takes every event but agent.stopped as proof of life.
StatusAfterEvent_AnyEventOnline(status, event_type) ==
  IF event_type = "agent.stopped" THEN "offline" ELSE "online"

\* A handler that does not know agent.stopped.
StatusAfterEvent_StopIgnored(status, event_type) ==
  IF event_type = "agent.started" THEN "online" ELSE status

\* orchestrator.py:184-190
StatusAfterEvent(status, event_type) ==
  IF event_type = "agent.started" THEN "online"
  ELSE IF event_type = "agent.stopped" THEN "offline"
  ELSE status

\* A handler that counts and stamps only the two lifecycle events.
RecordAfterEvent_LifecycleOnly(rec, event_type, t) ==
  IF event_type \in { "agent.started", "agent.stopped" }
  THEN [ rec EXCEPT !.last_seen = t,
                    !.messages_received = @ + 1,
                    !.status = StatusAfterEvent(@, event_type) ]
  ELSE rec

\* orchestrator.py:181-190, the update of one record at time t
RecordAfterEvent(rec, event_type, t) ==
  [ rec EXCEPT !.last_seen = t,
               !.messages_received = @ + 1,
               !.status = StatusAfterEvent(@, event_type) ]

\* A handler that registers every identity it hears from.
HandleAgentMessage_Registers(body, t) ==
  IF ~Decodes(body) THEN agents
  ELSE LET event_type == Get(body.obj, "event_type", "")
           agent_source == Get(body.obj, "agent_source", "")
           known == IF agent_source \in DOMAIN agents THEN agents
                    ELSE (agent_source :> [ status |-> "expected", last_seen |-> None,
                                            messages_received |-> 0, errors |-> 0 ]) @@ agents
       IN  [ known EXCEPT ![agent_source] = RecordAfterEvent(@, event_type, t) ]

\* _handle_agent_message, orchestrator.py:171-197: the registry after the body
\* was handled at time t.  An exception leaves the registry as it was.
HandleAgentMessage(body, t) ==
  IF ~Decodes(body) THEN agents
  ELSE LET event_type == Get(body.obj, "event_type", "")
           agent_source == Get(body.obj, "agent_source", "")
       IN  IF agent_source \in DOMAIN agents
           THEN [ agents EXCEPT ![agent_source] = RecordAfterEvent(@, event_type, t) ]
           ELSE agents

\* What the body of the handler's try raises: json.loads on a body that is not
\* JSON, .get on a JSON value that is not an object; orchestrator.py:175-177.
OrchRaises(body) ==
  IF body.json = "invalid" THEN "JSONDecodeError"
  ELSE IF body.json # "object" THEN "Exception"
  ELSE "none"

\* The except clause of _handle_agent_message, orchestrator.py:196
OrchCatches == { "Exception" }

\* An except clause takes the exception of its class and of every subclass;
\* JSONDecodeError is a subclass of Exception.
Caught(exc, clauses) == exc \in clauses \/ "Exception" \in clauses

\* Whether an exception of the handler's body reaches message.process().
OrchHandlerEscapes(body) ==
  OrchRaises(body) # "none" /\ ~Caught(OrchRaises(body), OrchCatches)

\* One run of _handle_agent_message on a delivered body, with its settlement.
HandlerRuns(body) ==
  /\ orch_conn.connection = "open"
  /\ handled < MaxHandled
  /\ handled' = handled + 1
  /\ agents' = HandleAgentMessage(body, now)
  /\ LET src == Get(body.obj, "agent_source", "")
         ev == Get(body.obj, "event_type", "")
         settle == << ProcessContext(OrchHandlerEscapes(body)) >>
     IN  /\ last' = [ ( IF ~Decodes(body) THEN Step("handle_error", "", "", "", 0)
                        ELSE IF src \in DOMAIN agents
                        THEN Step("handle", src, ev, agents[src].status,
                                  agents[src].messages_received)
                        ELSE Step("handle", src, ev, "", 0) )
                      EXCEPT !.settle = settle ]
         /\ announced' = { a \in announced : agents'[a].status = "unresponsive" }
         /\ started' = IF Decodes(body) /\ ev = "agent.started" /\ src \in DOMAIN agents
                       THEN started \cup { src } ELSE started
  /\ fresh' = {}
  /\ prev_due' = {}
  /\ UNCHANGED << now, system_status, orch_pc, orch_conn, shutdown_requested, sweep,
                  wake_at, sweep_due, sweep_pub >>

\* The handler runs when the loop's coroutine is suspended.
HandleDelivery(body) ==
  /\ orch_pc \in Suspended
  /\ HandlerRuns(body)

\* orchestrator.py:160: start() is suspended in queue.consume; the consumer is
\* registered and the registry is still the empty dict of __init__.
ConsumeRegistered ==
  /\ orch_pc = "connected"
  /\ orch_pc' = "consuming"
  /\ last' = Step("consume", "", "", "", 0)
  /\ UNCHANGED << now, agents, system_status, orch_conn, shutdown_requested, sweep, wake_at,
                  handled, sweep_due, sweep_pub, fresh, prev_due, announced, started >>
  /\ UNCHANGED << dispatch_vars, broker_vars, agent_vars >>
  /\ UNCHANGED lib_vars

\* A message that was waiting in the durable queue is delivered and handled
\* before start() is resumed.
DeliverWhileConsuming(body) ==
  /\ orch_pc = "consuming"
  /\ HandlerRuns(body)
  /\ UNCHANGED << dispatch_vars, broker_vars, agent_vars >>
  /\ UNCHANGED lib_vars

\* orchestrator.py:163-169, then start() as in StartAgentMonitoring: every
\* rostered identity is given a new record.
InitialiseRegistry ==
  /\ orch_pc = "consuming"
  /\ agents' = [ a \in Roster |-> NewRecord ]
  /\ system_status' = "running"
  /\ orch_pc' = "pub_started"
  /\ last' = Step("monitoring", "", "", "", 0)
  /\ UNCHANGED << now, orch_conn, shutdown_requested, sweep, wake_at, handled,
                  sweep_due, sweep_pub, fresh, prev_due, announced, started >>
  /\ UNCHANGED << dispatch_vars, broker_vars, agent_vars >>
  /\ UNCHANGED lib_vars

\* Some publisher's message reaches the management queue and is handled.
DeliverToOrchestrator(body) ==
  /\ HandleDelivery(body)
  /\ UNCHANGED << dispatch_vars, broker_vars, agent_vars >>
  /\ UNCHANGED lib_vars

(* ----------------------- orchestrator: main loop ----------------------- *)

\* orchestrator.py:233
SilenceTime(rec, current_time) == current_time - rec.last_seen

\* A sweep that treats a never-seen identity as silent since the start.
HealthStatus_UnseenIsSilent(rec, current_time) ==
  IF rec.last_seen = None
  THEN IF current_time > SilenceThreshold THEN "unresponsive" ELSE "expected"
  ELSE IF SilenceTime(rec, current_time) > SilenceThreshold THEN "unresponsive"
  ELSE rec.status

\* A sweep that returns a silent record to expected.
HealthStatus_ForgetsSilent(rec, current_time) ==
  IF rec.last_seen = None THEN "expected"
  ELSE IF SilenceTime(rec, current_time) > SilenceThreshold THEN "expected"
  ELSE rec.status

\* A sweep that only demotes the records that are online.
HealthStatus_OnlineOnly(rec, current_time) ==
  IF rec.last_seen = None THEN "expected"
  ELSE IF SilenceTime(rec, current_time) > SilenceThreshold /\ rec.status = "online"
  THEN "unresponsive"
  ELSE rec.status

\* orchestrator.py:225-237: the status _check_agent_health leaves in a record
HealthStatus(rec, current_time) ==
  IF rec.last_seen = None THEN "expected"
  ELSE IF SilenceTime(rec, current_time) > SilenceThreshold THEN "unresponsive"
  ELSE rec.status

\* orchestrator.py:235-240: whether the record's visit publishes agent.unresponsive
\* A sweep that announces every silent record, unresponsive already or not.
RaisesAlarm_EverySilent(rec, current_time) ==
  /\ rec.last_seen # None
  /\ SilenceTime(rec, current_time) > SilenceThreshold

RaisesAlarm(rec, current_time) ==
  /\ rec.last_seen # None
  /\ SilenceTime(rec, current_time) > SilenceThreshold
  /\ rec.status # "unresponsive"

\* The claim's case: seen, not unresponsive, silent for more than the threshold.
SilentRecord(rec, current_time) ==
  /\ rec.status \in { "expected", "online", "offline" }
  /\ rec.last_seen # None
  /\ current_time - rec.last_seen > SilenceThreshold

\* _main_loop's test and the first lines of _check_agent_health.
CheckAgentHealthStart ==
  /\ orch_pc = "loop_top"
  /\ ~shutdown_requested
  /\ orch_pc' = "check"
  /\ sweep' = [ current_time |-> now, idx |-> 1 ]
  /\ sweep_due' = {}
  /\ sweep_pub' = [ a \in Roster |-> 0 ]
  /\ prev_due' = fresh
  /\ fresh' = {}
  /\ last' = Step("sweep_start", "", "", "", 0)
  /\ UNCHANGED << now, agents, system_status, orch_conn, shutdown_requested,
                  wake_at, handled, announced, started >>
  /\ UNCHANGED << dispatch_vars, broker_vars, agent_vars >>
  /\ UNCHANGED lib_vars

\* One iteration of the for loop of _check_agent_health, up to the publish.
VisitAgent ==
  /\ orch_pc = "check"
  /\ sweep.idx <= Len(expected_agents)
  /\ LET name == expected_agents[sweep.idx]
         rec == agents[name]
         alarm == RaisesAlarm(rec, sweep.current_time)
     IN  /\ agents' = [ agents EXCEPT ![name].status = HealthStatus(rec, sweep.current_time) ]
         /\ IF alarm /\ orch_conn.exchange
            THEN orch_pc' = "pub_alarm" /\ UNCHANGED sweep
            ELSE orch_pc' = "check" /\ sweep' = [ sweep EXCEPT !.idx = @ + 1 ]
         /\ last' = Step("visit", name, "", rec.status, rec.messages_received)
         /\ IF SilentRecord(rec, sweep.current_time)
            THEN /\ sweep_due' = sweep_due \cup { name }
                 /\ fresh' = fresh \cup { name }
            ELSE UNCHANGED << sweep_due, fresh >>
         /\ announced' = IF rec.status # "unresponsive" THEN announced \ { name }
                         ELSE announced
  /\ UNCHANGED << now, system_status, orch_conn, shutdown_requested, wake_at, handled,
                  sweep_pub, prev_due, started >>
  /\ UNCHANGED << dispatch_vars, broker_vars, agent_vars >>
  /\ UNCHANGED lib_vars

\* A sweep that writes its verdict once the publish has returned.
PublishAlarmReturn_StaleWrite ==
  /\ orch_pc = "pub_alarm"
  /\ LET name == expected_agents[sweep.idx]
     IN  /\ agents' = [ agents EXCEPT ![name].status = "unresponsive" ]
         /\ \E ok \in BOOLEAN :
              /\ sweep_pub' = IF ok THEN [ sweep_pub EXCEPT ![name] = @ + 1 ] ELSE sweep_pub
              /\ announced' = IF ok THEN announced \cup { name } ELSE announced
              /\ last' = Step(IF ok THEN "alarm_published" ELSE "alarm_failed", name, "", "", 0)
  /\ orch_pc' = "check"
  /\ sweep' = [ sweep EXCEPT !.idx = @ + 1 ]
  /\ UNCHANGED << now, system_status, orch_conn, shutdown_requested, wake_at,
                  handled, sweep_due, fresh, prev_due, started >>
  /\ UNCHANGED << dispatch_vars, broker_vars, agent_vars >>
  /\ UNCHANGED lib_vars

\* exchange.publish returns or raises; _publish_system_event logs the error and
\* returns either way, and the for loop goes on.
PublishAlarmReturn ==
  /\ orch_pc = "pub_alarm"
  /\ LET name == expected_agents[sweep.idx]
     IN  \E ok \in BOOLEAN :
           /\ sweep_pub' = IF ok THEN [ sweep_pub EXCEPT ![name] = @ + 1 ] ELSE sweep_pub
           /\ announced' = IF ok /\ agents[name].status = "unresponsive"
                           THEN announced \cup { name } ELSE announced
           /\ last' = Step(IF ok THEN "alarm_published" ELSE "alarm_failed", name, "", "", 0)
  /\ orch_pc' = "check"
  /\ sweep' = [ sweep EXCEPT !.idx = @ + 1 ]
  /\ UNCHANGED << now, agents, system_status, orch_conn, shutdown_requested, wake_at,
                  handled, sweep_due, fresh, prev_due, started >>
  /\ UNCHANGED << dispatch_vars, broker_vars, agent_vars >>
  /\ UNCHANGED lib_vars

\* _check_agent_health returns.
CheckAgentHealthReturn ==
  /\ orch_pc = "check"
  /\ sweep.idx > Len(expected_agents)
  /\ orch_pc' = "stats"
  /\ last' = Step("sweep_end", "", "", "", 0)
  /\ UNCHANGED << now, agents, system_status, orch_conn, shutdown_requested, sweep,
                  wake_at, handled, sweep_due, sweep_pub, fresh, prev_due, announced, started >>
  /\ UNCHANGED << dispatch_vars, broker_vars, agent_vars >>
  /\ UNCHANGED lib_vars

\* json.dumps of the stats, orchestrator.py:253 and 277: 'agents' holds the records,
\* and a record's last_seen, once set, is a datetime, which json.dumps rejects.
StatsEncodable == \A a \in DOMAIN agents : agents[a].last_seen = None

\* _publish_system_stats: suspended in the publish, or (json.dumps raised, caught
\* in _publish_system_event) straight on to asyncio.sleep(30).
PublishSystemStats ==
  /\ orch_pc = "stats"
  /\ IF StatsEncodable /\ orch_conn.exchange
     THEN orch_pc' = "pub_stats" /\ UNCHANGED wake_at
     ELSE orch_pc' = "sleep" /\ wake_at' = now + SleepInterval
  /\ last' = Step("stats", "", "", "", 0)
  /\ UNCHANGED << now, agents, system_status, orch_conn, shutdown_requested, sweep,
                  handled, sweep_due, sweep_pub, fresh, prev_due, announced, started >>
  /\ UNCHANGED << dispatch_vars, broker_vars, agent_vars >>
  /\ UNCHANGED lib_vars

\* The publish of system.stats ends and _main_loop goes to sleep.
PublishStats(outcome) ==
  /\ orch_pc = "pub_stats"
  /\ orch_pc' = "sleep"
  /\ wake_at' = now + SleepInterval
  /\ last' = Step("stats_published", "", "system.stats", outcome, 0)
  /\ UNCHANGED << now, agents, system_status, orch_conn, shutdown_requested, sweep,
                  handled, sweep_due, sweep_pub, fresh, prev_due, announced, started >>

PublishStatsReturn ==
  /\ PublishStats("")
  /\ UNCHANGED << dispatch_vars, broker_vars, agent_vars >>
  /\ UNCHANGED lib_vars

\* Over the broker's queues: the exchange takes system.stats, or the publish raises.
SystemStatsPublished ==
  /\ \E outcome \in SystemEventOutcomes :
       /\ PublishStats(outcome)
       /\ queues' = SystemEventDelivered(outcome, "system.stats")
  /\ UNCHANGED << bindings, dispatch_vars, agent_vars >>
  /\ UNCHANGED lib_vars

\* asyncio.sleep(30) returns.
Wake ==
  /\ orch_pc = "sleep"
  /\ now >= wake_at
  /\ orch_pc' = "loop_top"
  /\ wake_at' = 0
  /\ last' = Step("wake", "", "", "", 0)
  /\ UNCHANGED << now, agents, system_status, orch_conn, shutdown_requested, sweep,
                  handled, sweep_due, sweep_pub, fresh, prev_due, announced, started >>
  /\ UNCHANGED << dispatch_vars, broker_vars, agent_vars >>
  /\ UNCHANGED lib_vars

\* Time passes while the coroutine sleeps: as long as the threshold, or longer.
Delays == { SilenceThreshold, SilenceThreshold + 1 }

Tick(d) ==
  /\ orch_pc = "sleep"
  /\ now + d <= MaxTime
  /\ now' = now + d
  /\ last' = Step("tick", "", "", "", 0)
  /\ UNCHANGED << agents, system_status, orch_pc, orch_conn, shutdown_requested, sweep,
                  wake_at, handled, sweep_due, sweep_pub, fresh, prev_due, announced, started >>
  /\ UNCHANGED << dispatch_vars, broker_vars, agent_vars >>
  /\ UNCHANGED lib_vars

\* orchestrator.py:216  asyncio.sleep(5)
ErrorSleep == 5

\* An iteration raises only in the first MaxErrorTime time units.
MaxErrorTime == 1

\* The except clause of _main_loop, orchestrator.py:214-216: an exception raised
\* in the iteration, during the sweep or the statistics, ends the iteration; the
\* loop sleeps 5 and goes on.
IterationRaises ==
  /\ orch_pc \in { "check", "stats" }
  /\ now < MaxErrorTime
  /\ orch_pc' = "sleep"
  /\ wake_at' = now + ErrorSleep
  /\ last' = Step("error", "", "", "", 0)
  /\ UNCHANGED << now, agents, system_status, orch_conn, shutdown_requested, sweep,
                  handled, sweep_due, sweep_pub, fresh, prev_due, announced, started >>
  /\ UNCHANGED << dispatch_vars, broker_vars, agent_vars >>
  /\ UNCHANGED lib_vars

\* Some record has been seen and is not unresponsive yet.
Pending ==
  \E a \in DOMAIN agents : agents[a].last_seen # None /\ agents[a].status # "unresponsive"

\* Time passes until after the sleep in progress was to return: past MaxTime as
\* long as a seen record is still to be found silent.
TimePasses(d) ==
  /\ orch_pc = "sleep"
  /\ now < wake_at
  /\ now + d <= MaxTime \/ Pending
  /\ now' = now + d
  /\ last' = Step("tick", "", "", "", 0)
  /\ UNCHANGED << agents, system_status, orch_pc, orch_conn, shutdown_requested, sweep,
                  wake_at, handled, sweep_due, sweep_pub, fresh, prev_due, announced, started >>
  /\ UNCHANGED << dispatch_vars, broker_vars, agent_vars >>
  /\ UNCHANGED lib_vars

(* ------------------------ orchestrator: shutdown ----------------------- *)

\* _signal_handler, orchestrator.py:431-434
SignalHandler ==
  /\ orch_pc \in Suspended \ { "pub_stopping" }
  /\ ~shutdown_requested
  /\ shutdown_requested' = TRUE
  /\ last' = Step("signal", "", "", "", 0)
  /\ UNCHANGED << now, agents, system_status, orch_pc, orch_conn, sweep, wake_at,
                  handled, sweep_due, sweep_pub, fresh, prev_due, announced, started >>
  /\ UNCHANGED << dispatch_vars, broker_vars, agent_vars >>
  /\ UNCHANGED lib_vars

\* The asyncio.sleep(30) in progress when the flag is set lasts its interval: the
\* time it was to return at comes, whatever MaxTime is.
SleepElapses ==
  /\ orch_pc = "sleep"
  /\ now < wake_at
  /\ shutdown_requested
  /\ now' = wake_at
  /\ last' = Step("tick", "", "", "", 0)
  /\ UNCHANGED << agents, system_status, orch_pc, orch_conn, shutdown_requested, sweep,
                  wake_at, handled, sweep_due, sweep_pub, fresh, prev_due, announced, started >>
  /\ UNCHANGED << dispatch_vars, broker_vars, agent_vars >>
  /\ UNCHANGED lib_vars

\* A loop that tests the flag only after one more sweep.
MainLoopExit_Sweeps ==
  /\ orch_pc = "loop_top"
  /\ shutdown_requested
  /\ orch_pc' = "check"
  /\ sweep' = [ current_time |-> now, idx |-> 1 ]
  /\ last' = Step("sweep_start", "", "", "", 0)
  /\ UNCHANGED << now, agents, system_status, orch_conn, shutdown_requested,
                  wake_at, handled, sweep_due, sweep_pub, fresh, prev_due, announced, started >>
  /\ UNCHANGED << dispatch_vars, broker_vars, agent_vars >>
  /\ UNCHANGED lib_vars

\* The while test of _main_loop fails; start() returns to main().
MainLoopExit ==
  /\ orch_pc = "loop_top"
  /\ shutdown_requested
  /\ orch_pc' = "stop"
  /\ last' = Step("loop_exit", "", "", "", 0)
  /\ UNCHANGED << now, agents, system_status, orch_conn, shutdown_requested, sweep,
                  wake_at, handled, sweep_due, sweep_pub, fresh, prev_due, announced, started >>
  /\ UNCHANGED << dispatch_vars, broker_vars, agent_vars >>
  /\ UNCHANGED lib_vars

\* connection.close() when there is an open connection, orchestrator.py:448-451
CloseConnection(conn) ==
  IF conn.connection = "open" THEN [ conn EXCEPT !.connection = "closed" ] ELSE conn

\* A stop() that marks every agent offline as the system goes down.
RegistryAfterStop_AllOffline(registry) ==
  [ a \in DOMAIN registry |-> [ registry[a] EXCEPT !.status = "offline" ] ]

\* stop() does not touch self.agents, orchestrator.py:436-452
RegistryAfterStop(registry) == registry

\* stop(), from main()'s finally: up to the publish of system.stopping, or to the
\* end when there is no exchange to publish on.
Stop ==
  /\ orch_pc = "stop"
  /\ agents' = RegistryAfterStop(agents)
  /\ IF orch_conn.exchange
     THEN /\ orch_pc' = "pub_stopping"
          /\ system_status' = "stopping"
          /\ UNCHANGED orch_conn
     ELSE /\ orch_pc' = "stopped"
          /\ system_status' = "stopped"
          /\ orch_conn' = CloseConnection(orch_conn)
  /\ last' = Step("stop", "", "", "", 0)
  /\ UNCHANGED << now, shutdown_requested, sweep, wake_at, handled,
                  sweep_due, sweep_pub, fresh, prev_due, announced, started >>
  /\ UNCHANGED << dispatch_vars, broker_vars, agent_vars >>
  /\ UNCHANGED lib_vars

\* The publish of system.stopping ends and stop() closes the connection.
PublishStopping(outcome) ==
  /\ orch_pc = "pub_stopping"
  /\ orch_pc' = "stopped"
  /\ system_status' = "stopped"
  /\ orch_conn' = CloseConnection(orch_conn)
  /\ last' = Step("stopped", "", "system.stopping", outcome, 0)
  /\ UNCHANGED << now, agents, shutdown_requested, sweep, wake_at, handled,
                  sweep_due, sweep_pub, fresh, prev_due, announced, started >>

PublishStoppingReturn ==
  /\ PublishStopping("")
  /\ UNCHANGED << dispatch_vars, broker_vars, agent_vars >>
  /\ UNCHANGED lib_vars

\* Over the broker's queues: the exchange takes system.stopping, or the publish raises.
SystemStoppingPublished ==
  /\ \E outcome \in SystemEventOutcomes :
       /\ PublishStopping(outcome)
       /\ queues' = SystemEventDelivered(outcome, "system.stopping")
  /\ UNCHANGED << bindings, dispatch_vars, agent_vars >>
  /\ UNCHANGED lib_vars

\* stop() called again after it has returned, orchestrator.py:436-452: the status
\* is set to stopping, _publish_system_event returns without an exchange or
\* swallows what the publish raises, the closed connection is passed over, and
\* the status is stopped again.
StopAgain ==
  /\ orch_pc = "stopped"
  /\ \E outcome \in ( IF orch_conn.exchange THEN SystemEventOutcomes ELSE { "no_exchange" } ) :
       /\ queues' = SystemEventDelivered(outcome, "system.stopping")
       /\ last' = Step("stop_again", "", "system.stopping", outcome, 0)
  /\ system_status' = "stopped"
  /\ orch_conn' = CloseConnection(orch_conn)
  /\ UNCHANGED << now, agents, orch_pc, shutdown_requested, sweep, wake_at, handled,
                  sweep_due, sweep_pub, fresh, prev_due, announced, started >>
  /\ UNCHANGED << bindings, dispatch_vars, agent_vars >>
  /\ UNCHANGED lib_vars

(* ------------------------- workflow dispatcher ------------------------- *)

TaskTypes ==
  { "complete_photo_workflow", "marketing_campaign_launch", "client_onboarding",
    "unknown_task" }

WorkflowStep(agent, type) == [ agent |-> agent, type |-> type ]

\* A dispatcher that creates the client's folder before the client is registered.
Workflow_FolderFirst(task_type) ==
  IF task_type = "complete_photo_workflow"
  THEN << WorkflowStep("photo-agent", "organize_photos"),
          WorkflowStep("marketing-agent", "suggest_content"),
          WorkflowStep("social-media-agent", "schedule_posts") >>
  ELSE IF task_type = "marketing_campaign_launch"
  THEN << WorkflowStep("marketing-agent", "create_campaign"),
          WorkflowStep("social-media-agent", "prepare_campaign_posts"),
          WorkflowStep("crm-agent", "segment_audience") >>
  ELSE IF task_type = "client_onboarding"
  THEN << WorkflowStep("photo-agent", "create_client_folder"),
          WorkflowStep("crm-agent", "register_client"),
          WorkflowStep("calendar-agent", "schedule_consultation") >>
  ELSE << >>

\* A dispatcher whose else branch runs the photo workflow.
Workflow_DefaultsToPhoto(task_type) ==
  IF task_type = "marketing_campaign_launch"
  THEN << WorkflowStep("marketing-agent", "create_campaign"),
          WorkflowStep("social-media-agent", "prepare_campaign_posts"),
          WorkflowStep("crm-agent", "segment_audience") >>
  ELSE IF task_type = "client_onboarding"
  THEN << WorkflowStep("crm-agent", "register_client"),
          WorkflowStep("photo-agent", "create_client_folder"),
          WorkflowStep("calendar-agent", "schedule_consultation") >>
  ELSE << WorkflowStep("photo-agent", "organize_photos"),
          WorkflowStep("marketing-agent", "suggest_content"),
          WorkflowStep("social-media-agent", "schedule_posts") >>

\* execute_distributed_task's branches and the sends of the three workflows,
\* orchestrator.py:300-313, 319-401; no steps for a type that is not recognised.
Workflow(task_type) ==
  IF task_type = "complete_photo_workflow"
  THEN << WorkflowStep("photo-agent", "organize_photos"),
          WorkflowStep("marketing-agent", "suggest_content"),
          WorkflowStep("social-media-agent", "schedule_posts") >>
  ELSE IF task_type = "marketing_campaign_launch"
  THEN << WorkflowStep("marketing-agent", "create_campaign"),
          WorkflowStep("social-media-agent", "prepare_campaign_posts"),
          WorkflowStep("crm-agent", "segment_audience") >>
  ELSE IF task_type = "client_onboarding"
  THEN << WorkflowStep("crm-agent", "register_client"),
          WorkflowStep("photo-agent", "create_client_folder"),
          WorkflowStep("calendar-agent", "schedule_consultation") >>
  ELSE << >>

\* orchestrator.py:409-415, the envelope of a task
TaskRequest(from, to, task_type) ==
  [ json |-> "object",
    obj |-> [ type |-> "task_request", from |-> from, to |-> to,
              task |-> [ type |-> task_type ] ] ]

\* What one call of _send_task_to_agent can come to: it returns at once without a
\* channel; otherwise the broker takes the message or the publish raises, as it
\* always does once stop() has closed the connection.
SendOutcomes ==
  IF ~orch_conn.channel THEN { "no_channel" }
  ELSE IF orch_conn.connection = "open" THEN { "published", "raised" }
  ELSE { "raised" }

\* A dispatcher that purges from the queues what the workflow has sent so far.
AfterFailedSend_Retracts(qs, sent) ==
  [ q \in DOMAIN qs |->
      SelectSeq(qs[q], LAMBDA b : \A i \in 1..Len(sent) : sent[i].body # b) ]

\* orchestrator.py:406-407 and 428-429: a send that does not publish returns or
\* logs, and does nothing about the messages of the steps before it.
AfterFailedSend(qs, sent) == qs

\* A send whose exception reaches the workflow and ends it.
SendRaises_Propagates(outcome) == outcome = "raised"

\* Whether _send_task_to_agent raises to the workflow: never, orchestrator.py:406-407
\* returns and 428-429 catches and logs.
SendRaises(outcome) == FALSE

\* The status the workflow returns after its last send, orchestrator.py:343-347,
\* 371-374, 398-401.
WorkflowResult == "initiated"

\* orchestrator.py:311
Unrecognised == "Tipo de tarefa não reconhecido: "

\* orchestrator.py:311 and 343-347, 371-374, 398-401: the message of the dict
\* execute_distributed_task returns for a type when no exception was raised.
ResultMessage(task_type) ==
  IF task_type = "complete_photo_workflow" THEN "Workflow de fotos iniciado"
  ELSE IF task_type = "marketing_campaign_launch" THEN "Campanha de marketing iniciada"
  ELSE IF task_type = "client_onboarding" THEN "Onboarding de cliente iniciado"
  ELSE Unrecognised \o task_type

Idle == [ pc |-> "idle", task_type |-> "", step |-> 0, result |-> "" ]

DispatchInit ==
  /\ dispatch = Idle
  /\ outbox = << >>
  /\ send_failed = {}

\* A task of the orchestrator's loop runs only while its main coroutine is not
\* running: before start(), at an await, or after stop().
CanDispatch == orch_pc \in { "created", "stopped" } \cup Suspended

\* execute_distributed_task up to its first send, or to the end for a type that
\* is not recognised.
ExecuteDistributedTask(task_type) ==
  /\ dispatch.pc = "idle"
  /\ CanDispatch
  /\ dispatch' =
       IF Workflow(task_type) = << >>
       THEN [ pc |-> "returned", task_type |-> task_type, step |-> 0, result |-> "error" ]
       ELSE [ pc |-> "sending", task_type |-> task_type, step |-> 1, result |-> "" ]
  /\ outbox' = << >>
  /\ send_failed' = {}
  /\ UNCHANGED << orch_vars, broker_vars, agent_vars >>
  /\ UNCHANGED lib_vars

\* One _send_task_to_agent of the workflow, and the return after the last one.
SendTaskToAgent ==
  /\ dispatch.pc = "sending"
  /\ LET steps == Workflow(dispatch.task_type)
         st == steps[dispatch.step]
         body == TaskRequest("orchestrator", st.agent, st.type)
     IN  \E outcome \in SendOutcomes :
           /\ IF outcome = "published"
              THEN /\ outbox' = Append(outbox, [ routing_key |-> QueueName(st.agent),
                                                 body |-> body ])
                   /\ queues' = DirectPublish(queues, QueueName(st.agent), body)
                   /\ UNCHANGED send_failed
              ELSE /\ send_failed' = send_failed \cup { dispatch.step }
                   /\ queues' = AfterFailedSend(queues, outbox)
                   /\ UNCHANGED outbox
           /\ dispatch' =
                IF SendRaises(outcome)
                THEN [ dispatch EXCEPT !.pc = "returned", !.result = "error" ]
                ELSE IF dispatch.step = Len(steps)
                THEN [ dispatch EXCEPT !.pc = "returned", !.result = WorkflowResult ]
                ELSE [ dispatch EXCEPT !.step = @ + 1 ]
  /\ UNCHANGED << orch_vars, bindings, agent_vars >>
  /\ UNCHANGED lib_vars

\* orchestrator.py:464-468: the number of records with a status
CountWithStatus(status) ==
  Cardinality({ a \in DOMAIN agents : agents[a].status = status })

\* orchestrator.py:462-469: agents_summary; total is the length of the roster,
\* the counts are taken over the registry.
AgentsSummary ==
  [ total |-> Len(expected_agents),
    online |-> CountWithStatus("online"),
    offline |-> CountWithStatus("offline"),
    unresponsive |-> CountWithStatus("unresponsive"),
    expected |-> CountWithStatus("expected") ]

\* get_system_status, orchestrator.py:454-472: a coroutine without an await, which
\* reads system_status and the registry and returns a snapshot to its caller.
GetSystemStatus ==
  /\ dispatch.pc = "idle"
  /\ CanDispatch
  /\ dispatch' = [ pc |-> "returned", task_type |-> "", step |-> 0, result |-> "status" ]
  /\ UNCHANGED << outbox, send_failed, orch_vars, broker_vars, agent_vars >>
  /\ UNCHANGED lib_vars

\* The caller takes the result.
DispatchReturn ==
  /\ dispatch.pc = "returned"
  /\ dispatch' = Idle
  /\ UNCHANGED << outbox, send_failed, orch_vars, broker_vars, agent_vars >>
  /\ UNCHANGED lib_vars

(* ----------------------------- agent runtime -------------------------- *)

\* PhotoAgent.__init__, photo_agent/agent.py:49
agent_name == "photo-agent"

NoAgentStep ==
  [ op |-> "init", case |-> "", kind |-> "", settle |-> << >>, executed |-> 0,
    payload |-> "", processed |-> FALSE, prev |-> "", event |-> "" ]

\* BaseAgent.__init__, base_agent.py:39-59
AgentInit ==
  /\ agent_pc = "created"
  /\ agent_conn = [ connection |-> "none", channel |-> FALSE, exchange |-> FALSE,
                    queue |-> FALSE, usable |-> FALSE, consumer |-> FALSE ]
  /\ agent_last = NoAgentStep
  /\ env_sent = 0
  /\ in_flight = << >>
  /\ agent_hist = [ attempts |-> 0, calls |-> 0 ]

\* How connect_to_rabbitmq can end: all five awaits succeed; the broker is
\* unreachable; or the declaration of the exchange, of the queue, or the binding
\* fails on the open connection.
AgentConnectResults ==
  { "ok", "unreachable", "declare_failed", "queue_failed", "bind_failed" }

\* base_agent.py:92-109: the attributes the awaits passed before the result have
\* set.  The broker closes the channel on which a declaration or a binding failed,
\* so only a connect that succeeded leaves a channel it accepts publishes on.
AgentConnAfter(conn, result) ==
  IF result = "ok"
  THEN [ conn EXCEPT !.connection = "open", !.channel = TRUE, !.exchange = TRUE,
                     !.queue = TRUE, !.usable = TRUE ]
  ELSE IF result = "bind_failed"
  THEN [ conn EXCEPT !.connection = "open", !.channel = TRUE, !.exchange = TRUE,
                     !.queue = TRUE ]
  ELSE IF result = "queue_failed"
  THEN [ conn EXCEPT !.connection = "open", !.channel = TRUE, !.exchange = TRUE ]
  ELSE IF result = "declare_failed"
  THEN [ conn EXCEPT !.connection = "open", !.channel = TRUE ]
  ELSE conn

\* A start() that tries the broker again when the connection fails.
AgentPcAfterConnect_Retries(result) ==
  IF result = "ok" THEN "connected" ELSE "created"

\* base_agent.py:113-115 and 221: a failure is raised as ConnectionError, start()
\* lets it through, and main() goes to its finally; a success goes on in start().
AgentPcAfterConnect(result) ==
  IF result = "ok" THEN "connected" ELSE "stop"

\* main() calls start(), which calls connect_to_rabbitmq once.
AgentConnect ==
  /\ agent_pc = "created"
  /\ \E result \in AgentConnectResults :
       /\ agent_conn' = AgentConnAfter(agent_conn, result)
       /\ agent_pc' = AgentPcAfterConnect(result)
       /\ queues' = IF result \in { "ok", "bind_failed" }
                    THEN DeclareQueue(queues, QueueName(agent_name))
                    ELSE queues
       /\ bindings' = IF result = "ok" THEN bindings \cup { QueueName(agent_name) }
                      ELSE bindings
       /\ agent_last' = [ NoAgentStep EXCEPT !.op = "connect", !.case = result ]
  /\ agent_hist' = [ agent_hist EXCEPT !.attempts = @ + 1 ]
  /\ UNCHANGED << env_sent, in_flight, orch_vars, dispatch_vars >>
  /\ UNCHANGED lib_vars

\* A runtime whose publish_message does not test self.exchange.
PublishMessageRaises_NoGuard(conn) == FALSE

\* base_agent.py:124-125
StartConsumingRaises(conn) == ~conn.queue

\* base_agent.py:161-162
PublishMessageRaises(conn) == ~conn.exchange

\* base_agent.py:189-190
SendDirectMessageRaises(conn) == ~conn.channel

\* How a publish on the agent's channel can end: the broker takes the message or
\* the publish raises, as it always does on a channel that is not open. The
\* connection comes from aio_pika.connect, not connect_robust: a channel the
\* broker closed on a refused declaration is not reopened.
PublishOutcomes(conn) ==
  IF conn.connection = "open" /\ conn.usable THEN { "ok", "raised" } ELSE { "raised" }

\* start() after the connect: start_consuming registers the consumer, and
\* publish_message('agent.started') is suspended in the publish; a RuntimeError of
\* either ends start() and takes main() to its finally.
StartConsuming ==
  /\ agent_pc = "connected"
  /\ agent_conn' = [ agent_conn EXCEPT !.consumer = ~StartConsumingRaises(agent_conn) ]
  /\ agent_pc' = IF StartConsumingRaises(agent_conn) \/ PublishMessageRaises(agent_conn)
                 THEN "stop" ELSE "pub_started"
  /\ agent_last' = [ NoAgentStep EXCEPT !.op = "consume" ]
  /\ UNCHANGED << env_sent, in_flight, agent_hist, orch_vars, dispatch_vars, broker_vars >>
  /\ UNCHANGED lib_vars

\* publish_message('agent.started') returns, and main() enters its sleep loop; or
\* it raises, which ends start() and takes main() to its finally.
PublishAgentStartedReturn ==
  /\ agent_pc = "pub_started"
  /\ \E outcome \in PublishOutcomes(agent_conn) :
       /\ queues' = IF outcome = "ok"
                    THEN Fanout(queues, bindings, Broadcast("agent.started", agent_name))
                    ELSE queues
       /\ agent_pc' = IF outcome = "ok" THEN "running" ELSE "stop"
       /\ agent_last' = [ NoAgentStep EXCEPT !.op = "publish_started", !.case = outcome,
                                             !.event = "agent.started" ]
  /\ UNCHANGED << agent_conn, env_sent, in_flight, agent_hist, bindings, orch_vars,
                  dispatch_vars >>
  /\ UNCHANGED lib_vars

\* The run loop of main() ends: KeyboardInterrupt, or an exception.
RunLoopEnds ==
  /\ agent_pc = "running"
  /\ agent_pc' = "stop"
  /\ agent_last' = [ NoAgentStep EXCEPT !.op = "loop_end" ]
  /\ UNCHANGED << agent_conn, env_sent, in_flight, agent_hist, orch_vars, dispatch_vars,
                  broker_vars >>
  /\ UNCHANGED lib_vars

\* base_agent.py:244-245
AgentClose(conn) ==
  IF conn.connection = "open" THEN [ conn EXCEPT !.connection = "closed" ] ELSE conn

\* stop() from main()'s finally: suspended in the publish of agent.stopped, or,
\* without an exchange, straight to the close.
AgentStop ==
  /\ agent_pc = "stop"
  /\ IF agent_conn.exchange
     THEN agent_pc' = "pub_stopped" /\ UNCHANGED agent_conn
     ELSE agent_pc' = "stopped" /\ agent_conn' = AgentClose(agent_conn)
  /\ agent_last' = [ NoAgentStep EXCEPT !.op = "stop" ]
  /\ UNCHANGED << env_sent, in_flight, agent_hist, orch_vars, dispatch_vars, broker_vars >>
  /\ UNCHANGED lib_vars

\* publish_message('agent.stopped') returns and stop() closes the connection; or
\* it raises, and the exception leaves stop() before the close (base_agent.py:237-245
\* has no try around the publish).
PublishAgentStoppedReturn ==
  /\ agent_pc = "pub_stopped"
  /\ \E outcome \in PublishOutcomes(agent_conn) :
       /\ queues' = IF outcome = "ok"
                    THEN Fanout(queues, bindings, Broadcast("agent.stopped", agent_name))
                    ELSE queues
       /\ agent_conn' = IF outcome = "ok" THEN AgentClose(agent_conn) ELSE agent_conn
       /\ agent_pc' = IF outcome = "ok" THEN "stopped" ELSE "stop_failed"
       /\ agent_last' = [ NoAgentStep EXCEPT !.op = "publish_stopped", !.case = outcome,
                                             !.event = "agent.stopped" ]
  /\ UNCHANGED << env_sent, in_flight, agent_hist, bindings, orch_vars, dispatch_vars >>
  /\ UNCHANGED lib_vars

\* stop() called again after it has returned, base_agent.py:232-247: self.exchange
\* is never reset, so agent.stopped is published again, on a closed connection, and
\* what the publish raises leaves stop(); without an exchange there is nothing to do.
AgentStopAgain ==
  /\ agent_pc = "stopped"
  /\ \E outcome \in ( IF agent_conn.exchange THEN PublishOutcomes(agent_conn)
                       ELSE { "ok" } ) :
       /\ queues' = IF agent_conn.exchange /\ outcome = "ok"
                    THEN Fanout(queues, bindings, Broadcast("agent.stopped", agent_name))
                    ELSE queues
       /\ agent_conn' = IF outcome = "ok" THEN AgentClose(agent_conn) ELSE agent_conn
       /\ agent_last' = [ NoAgentStep EXCEPT !.op = "stop_again", !.case = outcome ]
  /\ UNCHANGED << agent_pc, env_sent, in_flight, agent_hist, bindings, orch_vars,
                  dispatch_vars >>
  /\ UNCHANGED lib_vars

\* A runtime that hands every body to process_message, decoded or not.
JsonLoads_Lenient(body) == TRUE

\* json.loads(message.body.decode()), base_agent.py:141
JsonLoads(body) == body.json # "invalid"

\* PhotoAgent.process_message, photo_agent/agent.py:82-101: the handler an envelope
\* is routed to, by its event_type alone.
PhotoRoute(obj) ==
  LET event_type == Get(obj, "event_type", "")
  IN  IF event_type = "task.photo_organization" THEN "_handle_photo_organization_task"
      ELSE IF event_type = "task.photo_processing" THEN "_handle_photo_processing_task"
      ELSE IF event_type = "crm.new_client" THEN "_handle_new_client_event"
      ELSE IF event_type = "calendar.session_scheduled" THEN "_handle_session_scheduled"
      ELSE "not_processed"

\* The calls of execute_task that process_message makes for an envelope.
ExecuteTaskCalls(obj) == IF PhotoRoute(obj) = "execute_task" THEN 1 ELSE 0

\* The event a route of process_message publishes before it returns, and in whose
\* publish it is suspended: photo_agent/agent.py:188 and 240; "" for a route that
\* has no await on the broker.
PhotoPublishes(route) ==
  IF route = "_handle_photo_organization_task" THEN "photos.organized"
  ELSE IF route = "_handle_photo_processing_task" THEN "photos.processed"
  ELSE ""

\* How process_message can end without having been suspended: a JSON value
\* without .get raises at once; the event handlers touch the file system and may
\* raise or return early; anything else is logged.
ProcessOutcomes(body) ==
  IF body.json # "object" THEN { "Exception" }
  ELSE IF PhotoRoute(body.obj) = "not_processed" THEN { "none" }
  ELSE { "none", "Exception" }

\* A handler with only the first except clause.
AgentCatches_JsonOnly == { "JSONDecodeError" }

\* The except clauses of _handle_message, base_agent.py:148-151
AgentCatches == { "JSONDecodeError", "Exception" }

\* The consumer is registered on an open connection and the agent's main coroutine
\* is suspended, so the callback of a delivered message can run.
AgentConsuming ==
  /\ agent_pc \in { "pub_started", "running", "pub_stopped" }
  /\ agent_conn.connection = "open"
  /\ agent_conn.consumer

\* What the last completed step of the handler was, for the next one to remember.
PrevCase == IF agent_last.op = "handle" THEN agent_last.case ELSE ""

\* The record of one handler invocation that has ended with exception exc.
Handled(body, exc, event) ==
  [ op |-> "handle",
    case |-> IF exc = "none" THEN "ok"
             ELSE IF exc = "JSONDecodeError" THEN "decode_error"
             ELSE "process_error",
    kind |-> IF body.json = "object" THEN Get(body.obj, "type", "") ELSE "",
    settle |-> << ProcessContext(exc # "none" /\ ~Caught(exc, AgentCatches)) >>,
    executed |-> IF body.json = "object" THEN ExecuteTaskCalls(body.obj) ELSE 0,
    payload |-> body.json,
    processed |-> JsonLoads(body),
    prev |-> PrevCase,
    event |-> event ]

\* queue.consume(self._handle_message) with no prefetch limit on the channel
\* (base_agent.py:93 and 128): the callback of the next message of the queue is
\* started as soon as the event loop is free, whether or not an earlier callback
\* is suspended.  _handle_message runs to its end, or to the publish in which
\* process_message is suspended.
AgentHandleMessage ==
  /\ AgentConsuming
  /\ queues[QueueName(agent_name)] # << >>
  /\ LET body == Head(queues[QueueName(agent_name)])
         suspends == /\ body.json = "object"
                     /\ PhotoPublishes(PhotoRoute(body.obj)) # ""
     IN  \E way \in ( IF ~JsonLoads(body) THEN { "JSONDecodeError" }
                      ELSE ProcessOutcomes(body) \cup
                           ( IF suspends THEN { "suspend" } ELSE {} ) ) :
           IF way = "suspend"
           THEN /\ in_flight' = Append(in_flight, body)
                /\ agent_last' = [ NoAgentStep EXCEPT !.op = "handle_begin",
                                                      !.payload = body.json,
                                                      !.processed = TRUE,
                                                      !.prev = PrevCase ]
           ELSE /\ in_flight' = in_flight
                /\ agent_last' = Handled(body, way, "")
  /\ queues' = [ queues EXCEPT ![QueueName(agent_name)] = Tail(@) ]
  /\ UNCHANGED << agent_pc, agent_conn, env_sent, agent_hist, bindings, orch_vars,
                  dispatch_vars >>
  /\ UNCHANGED lib_vars

\* The publish in which the i-th suspended callback waits returns or raises;
\* organize_photos and process_photos catch the exception (photo_agent/agent.py:
\* 201-203, 253-255), so process_message returns and the callback ends.
AgentHandlerResume(i) ==
  /\ i \in 1..Len(in_flight)
  /\ LET body == in_flight[i]
         event == PhotoPublishes(PhotoRoute(body.obj))
     IN  \E outcome \in PublishOutcomes(agent_conn) :
           /\ queues' = IF outcome = "ok"
                        THEN Fanout(queues, bindings, Broadcast(event, agent_name))
                        ELSE queues
           /\ agent_last' = Handled(body, "none", IF outcome = "ok" THEN event ELSE "")
  /\ in_flight' = [ j \in 1..(Len(in_flight) - 1) |->
                      IF j < i THEN in_flight[j] ELSE in_flight[j + 1] ]
  /\ UNCHANGED << agent_pc, agent_conn, env_sent, agent_hist, bindings, orch_vars,
                  dispatch_vars >>
  /\ UNCHANGED lib_vars

\* The methods other code calls on an agent object directly, as
\* examples/agent_communication_demo.py:49-116 does.
Methods == { "start_consuming", "publish_message", "send_direct_message" }

\* The RuntimeError with which each method refuses an agent that lacks what it needs.
CallRaises(method, conn) ==
  IF method = "start_consuming" THEN StartConsumingRaises(conn)
  ELSE IF method = "publish_message" THEN PublishMessageRaises(conn)
  ELSE SendDirectMessageRaises(conn)

\* How a direct call of a method can end.
CallOutcomes(method, conn) ==
  IF CallRaises(method, conn) THEN { "RuntimeError" }
  ELSE IF method = "start_consuming"
  THEN IF conn.connection = "open" /\ conn.usable THEN { "ok" } ELSE { "raised" }
  ELSE PublishOutcomes(conn)

\* base_agent.py:193-199, the envelope of send_direct_message
DirectMessage(from, to) ==
  [ json |-> "object",
    obj |-> [ type |-> "direct_message", from |-> from, to |-> to ] ]

\* Other code calls one of the methods while main() is not running.
AgentCall(method) ==
  /\ agent_pc \in { "created", "running", "stopped", "stop_failed" }
  /\ agent_hist.calls < MaxCalls
  /\ agent_hist' = [ agent_hist EXCEPT !.calls = @ + 1 ]
  /\ \E outcome \in CallOutcomes(method, agent_conn) :
       /\ agent_last' = [ NoAgentStep EXCEPT !.op = "call", !.kind = method,
                                             !.case = outcome,
                                             !.event = IF method = "publish_message"
                                                       THEN "photos.processed" ELSE "" ]
       /\ agent_conn' = IF method = "start_consuming" /\ outcome = "ok"
                        THEN [ agent_conn EXCEPT !.consumer = TRUE ] ELSE agent_conn
       /\ queues' =
            IF outcome # "ok" \/ method = "start_consuming" THEN queues
            ELSE IF method = "publish_message"
            THEN Fanout(queues, bindings, Broadcast("photos.processed", agent_name))
            ELSE DirectPublish(queues, QueueName("marketing-agent"),
                               DirectMessage(agent_name, "marketing-agent"))
  /\ UNCHANGED << agent_pc, env_sent, in_flight, bindings, orch_vars, dispatch_vars >>
  /\ UNCHANGED lib_vars

\* The identities a runtime addresses a direct message to: itself, an agent that
\* is not running, and the orchestrator.
DirectTargets == { agent_name, "marketing-agent", "orchestrator" }

\* send_direct_message(target_agent, data), base_agent.py:181-211, called by the
\* agent's own code while it runs: the default exchange is given the envelope
\* with the routing key "<target_agent>.queue".
SendDirectMessage(target) ==
  /\ agent_pc = "running"
  /\ agent_hist.calls < MaxCalls
  /\ agent_hist' = [ agent_hist EXCEPT !.calls = @ + 1 ]
  /\ \E outcome \in CallOutcomes("send_direct_message", agent_conn) :
       /\ agent_last' = [ NoAgentStep EXCEPT !.op = "direct", !.kind = target,
                                             !.case = outcome ]
       /\ queues' = IF outcome = "ok"
                    THEN DirectPublish(queues, QueueName(target),
                                       DirectMessage(agent_name, target))
                    ELSE queues
  /\ UNCHANGED << agent_pc, agent_conn, env_sent, in_flight, bindings, orch_vars,
                  dispatch_vars >>
  /\ UNCHANGED lib_vars

\* What the orchestrator, the CLI and the other agents send.
Traffic ==
  { [ via |-> "direct", body |-> TaskRequest("orchestrator", agent_name, "organize_photos") ],
    [ via |-> "direct", body |-> NotJson ],
    [ via |-> "direct", body |-> JsonArray ],
    [ via |-> "fanout", body |-> NotJson ],
    [ via |-> "fanout", body |-> Broadcast("crm.new_client", "crm-agent") ],
    [ via |-> "fanout", body |-> Broadcast("task.photo_organization", "marketing-agent") ] }

\* Another publisher sends m: to the agent's queue by the default exchange, or to
\* every bound queue by jarvis.events.
OtherPublishes(m) ==
  /\ env_sent < MaxEnv
  /\ env_sent' = env_sent + 1
  /\ queues' = IF m.via = "direct"
               THEN DirectPublish(queues, QueueName(agent_name), m.body)
               ELSE Fanout(queues, bindings, m.body)
  /\ UNCHANGED << agent_pc, agent_conn, agent_last, in_flight, agent_hist, bindings,
                  orch_vars, dispatch_vars >>
  /\ UNCHANGED lib_vars

\* The orchestrator's consumer takes the next message of the management queue.
OrchConsume ==
  /\ ManagementQueue \in DOMAIN queues
  /\ queues[ManagementQueue] # << >>
  /\ HandleDelivery(Head(queues[ManagementQueue]))
  /\ queues' = [ queues EXCEPT ![ManagementQueue] = Tail(@) ]
  /\ UNCHANGED << bindings, dispatch_vars, agent_vars >>
  /\ UNCHANGED lib_vars

(* ------------------------------ envelopes ----------------------------- *)

\* A Python value, by what json.dumps and json.loads make of it: its type, the
\* type of its keys when it is a dict, and its content as text.
PyValue(type, keys, text) == [ type |-> type, keys |-> keys, text |-> text ]

Str(text) == PyValue("str", "", text)

\* A key the dict does not have.
Absent == PyValue("absent", "", "")

\* datetime.now().isoformat(), a str
Timestamp == Str("2024-01-01T00:00:00")

\* What a caller can put under a key of its data: JSON's own types, a tuple, a
\* dict with int keys, and an object json.dumps has no encoding for.
CallerValues ==
  { Str("Ana"), PyValue("int", "", "50"), PyValue("list", "", "a,b"),
    PyValue("tuple", "", "a,b"), PyValue("dict", "str", "1:v"),
    PyValue("dict", "int", "1:v"), PyValue("datetime", "", "2024-01-01 00:00:00") }

\* The keys of the caller's data: one of its own, and the names of the fields the
\* runtime stamps.
DataKeys == { "path", "event_type", "agent_source", "from", "to", "timestamp" }

\* The caller's data, a dict of one key.
CallerData == { [ key |-> k, value |-> v ] : k \in DataKeys, v \in CallerValues }

\* What a field holds when the caller's data may set it.
Override(data, field, stamped) == IF data.key = field THEN data.value ELSE stamped

\* A runtime that lets the caller's data set the fields of the envelope.
PublishMessageData_Merged(own, event_type, data) ==
  [ event_type |-> Override(data, "event_type", Str(event_type)),
    agent_source |-> Override(data, "agent_source", Str(own)),
    type |-> Absent, from |-> Absent, to |-> Absent,
    timestamp |-> Override(data, "timestamp", Timestamp),
    payload |-> "data", data |-> data ]

\* message_data of publish_message, base_agent.py:165-170
PublishMessageData(own, event_type, data) ==
  [ event_type |-> Str(event_type), agent_source |-> Str(own),
    type |-> Absent, from |-> Absent, to |-> Absent,
    timestamp |-> Timestamp, payload |-> "data", data |-> data ]

\* message_data of send_direct_message, base_agent.py:193-199
DirectMessageData(own, target_agent, data) ==
  [ event_type |-> Absent, agent_source |-> Absent,
    type |-> Str("direct_message"), from |-> Str(own), to |-> Str(target_agent),
    timestamp |-> Timestamp, payload |-> "data", data |-> data ]

\* message_data of _send_task_to_agent, orchestrator.py:409-415: the caller's data
\* is under 'task'.
TaskMessageData(to, task_data) ==
  [ event_type |-> Absent, agent_source |-> Absent,
    type |-> Str("task_request"), from |-> Str("orchestrator"), to |-> Str(to),
    timestamp |-> Timestamp, payload |-> "task", data |-> task_data ]

\* message_data of _publish_system_event, orchestrator.py:270-275
SystemEventData(event_type, data) ==
  [ event_type |-> Str(event_type), agent_source |-> Str("orchestrator"),
    type |-> Absent, from |-> Absent, to |-> Absent,
    timestamp |-> Timestamp, payload |-> "data", data |-> data ]

\* stats of _publish_system_stats, orchestrator.py:250-257: 'agents' is the
\* registry, whose records hold a datetime in last_seen once an agent was seen.
StatsData(seen) ==
  [ key |-> "agents",
    value |-> IF seen THEN PyValue("datetime", "", "agents.last_seen")
              ELSE PyValue("dict", "str", "agents") ]

\* json.dumps of one value: a str is a JSON string, an int a number, a list and a
\* tuple alike an array, a dict an object whose keys are all strings; anything
\* else raises TypeError.  A key the dict does not have is not in the text either.
JsonDumpsValue(v) ==
  IF v.type = "absent" THEN [ json |-> "absent", text |-> "" ]
  ELSE IF v.type = "str" THEN [ json |-> "string", text |-> v.text ]
  ELSE IF v.type = "int" THEN [ json |-> "number", text |-> v.text ]
  ELSE IF v.type \in { "list", "tuple" } THEN [ json |-> "array", text |-> v.text ]
  ELSE IF v.type = "dict" THEN [ json |-> "object", text |-> v.text ]
  ELSE [ json |-> "TypeError", text |-> "" ]

\* json.loads of one value: a string is a str, a number an int, an array a list,
\* an object a dict with str keys.
JsonLoadsValue(j) ==
  IF j.json = "absent" THEN Absent
  ELSE IF j.json = "string" THEN Str(j.text)
  ELSE IF j.json = "number" THEN PyValue("int", "", j.text)
  ELSE IF j.json = "array" THEN PyValue("list", "", j.text)
  ELSE PyValue("dict", "str", j.text)

\* Whether json.dumps(message_data) returns, base_agent.py:173, 203 and
\* orchestrator.py:277, 417.
Encodable(message_data) == JsonDumpsValue(message_data.data.value).json # "TypeError"

\* json.dumps(message_data).encode()
JsonDumps(message_data) ==
  [ event_type |-> JsonDumpsValue(message_data.event_type),
    agent_source |-> JsonDumpsValue(message_data.agent_source),
    type |-> JsonDumpsValue(message_data.type),
    from |-> JsonDumpsValue(message_data.from),
    to |-> JsonDumpsValue(message_data.to),
    timestamp |-> JsonDumpsValue(message_data.timestamp),
    payload |-> message_data.payload,
    data |-> [ key |-> message_data.data.key,
               value |-> JsonDumpsValue(message_data.data.value) ] ]

\* json.loads(message.body.decode()), base_agent.py:141 and orchestrator.py:175
JsonLoadsEnvelope(body) ==
  [ event_type |-> JsonLoadsValue(body.event_type),
    agent_source |-> JsonLoadsValue(body.agent_source),
    type |-> JsonLoadsValue(body.type),
    from |-> JsonLoadsValue(body.from),
    to |-> JsonLoadsValue(body.to),
    timestamp |-> JsonLoadsValue(body.timestamp),
    payload |-> body.payload,
    data |-> [ key |-> body.data.key, value |-> JsonLoadsValue(body.data.value) ] ]

NoData == [ key |-> "", value |-> Absent ]

NoEnvelope ==
  [ event_type |-> Absent, agent_source |-> Absent, type |-> Absent, from |-> Absent,
    to |-> Absent, timestamp |-> Absent, payload |-> "", data |-> NoData ]

WireInit == wire = [ op |-> "init", arg |-> "", data |-> NoData, built |-> NoEnvelope,
                     outcome |-> "", decoded |-> NoEnvelope ]

\* A sender builds message_data from the caller's data and encodes it, and the
\* receiver decodes the body.
Sent(op, arg, data, message_data) ==
  [ op |-> op, arg |-> arg, data |-> data, built |-> message_data,
    outcome |-> IF Encodable(message_data) THEN "ok" ELSE "TypeError",
    decoded |-> IF Encodable(message_data)
                THEN JsonLoadsEnvelope(JsonDumps(message_data))
                ELSE NoEnvelope ]

WireEventTypes == { "photos.processed", "agent.started" }

PublishMessage(event_type, data) ==
  /\ wire' = Sent("publish_message", event_type, data,
                  PublishMessageData(agent_name, event_type, data))
  /\ UNCHANGED << orch_vars, dispatch_vars, broker_vars, agent_vars, cli, mem, mem_last >>

SendDirect(target_agent, data) ==
  /\ wire' = Sent("send_direct_message", target_agent, data,
                  DirectMessageData(agent_name, target_agent, data))
  /\ UNCHANGED << orch_vars, dispatch_vars, broker_vars, agent_vars, cli, mem, mem_last >>

SendTask(to, task_data) ==
  /\ wire' = Sent("_send_task_to_agent", to, task_data, TaskMessageData(to, task_data))
  /\ UNCHANGED << orch_vars, dispatch_vars, broker_vars, agent_vars, cli, mem, mem_last >>

PublishSystemEvent(event_type, data) ==
  /\ wire' = Sent("_publish_system_event", event_type, data,
                  SystemEventData(event_type, data))
  /\ UNCHANGED << orch_vars, dispatch_vars, broker_vars, agent_vars, cli, mem, mem_last >>

PublishSystemStatsData(seen) ==
  /\ wire' = Sent("_publish_system_stats", "system.stats", StatsData(seen),
                  SystemEventData("system.stats", StatsData(seen)))
  /\ UNCHANGED << orch_vars, dispatch_vars, broker_vars, agent_vars, cli, mem, mem_last >>

(* ------------------------------- memory -------------------------------- *)

\* Hours the clock of the memory manager is let run.
MaxClock == 3

EventIds == { "event1", "event2", "event3" }

EventData ==
  { [ type |-> t, client |-> c ] : t \in { "photo", "marketing" }, c \in { "Ana", "Mariana" } }

TaskIds == { "test_task", "current_task" }

TtlHours == { 1, 2 }

NoFiles == [ x \in {} |-> 0 ]

NoResult == [ op |-> "init", id |-> "", at |-> 0, found |-> FALSE, returned |-> FALSE,
             limit |-> 0, query |-> NoFiles, result |-> {} ]

\* MemoryManager.__init__, memory_manager.py:32-55: the directories are empty.
MemInit ==
  /\ mem = [ episodic |-> NoFiles, semantic |-> NoFiles, trabalho |-> NoFiles, clock |-> 0 ]
  /\ mem_last = NoResult

\* store_episodic, memory_manager.py:57-91: the event data gets a timestamp, and
\* the file <event_id>.json is written, over an earlier one of that name.
EpisodicEntry(event_id, event_data, t) ==
  [ event_id |-> event_id, type |-> "episodic", stored_at |-> t,
    data |-> [ type |-> event_data.type, client |-> event_data.client, timestamp |-> t ] ]

StoreEpisodic(event_id, event_data) ==
  /\ mem' = [ mem EXCEPT !.episodic =
                (event_id :> EpisodicEntry(event_id, event_data, mem.clock)) @@ @ ]
  /\ mem_last' = [ NoResult EXCEPT !.op = "store_episodic", !.id = event_id,
                                   !.at = mem.clock, !.returned = TRUE ]
  /\ UNCHANGED << orch_vars, dispatch_vars, broker_vars, agent_vars, cli, wire >>

\* str.lower(), over the letters the names use.
LowerChar(c) ==
  IF c = "A" THEN "a" ELSE IF c = "M" THEN "m" ELSE IF c = "P" THEN "p" ELSE c

RECURSIVE Lower(_)
Lower(s) ==
  IF Len(s) = 0 THEN "" ELSE LowerChar(SubSeq(s, 1, 1)) \o Lower(SubSeq(s, 2, Len(s)))

\* Python's 'v in s' on two str
Contains(s, v) ==
  \E i \in 1..(Len(s) - Len(v) + 1) : SubSeq(s, i, i + Len(v) - 1) = v

\* _matches_query, memory_manager.py:392-419, for a query of str values: a key of
\* the query is looked up in the entry itself first, and in its data only when the
\* entry has no such key; the value has to occur in what is found, whatever the case.
MatchesQuery(memory, query) ==
  \A key \in DOMAIN query :
    IF key \in DOMAIN memory
    THEN Contains(Lower(memory[key]), Lower(query[key]))
    ELSE /\ key \in DOMAIN memory.data
         /\ Contains(Lower(memory.data[key]), Lower(query[key]))

\* The queries: on type, on client, or on both.
Queries ==
  { "type" :> t : t \in { "photo", "marketing" } }
    \cup { "client" :> c : c \in { "Ana", "Mariana" } }
    \cup { ("type" :> "photo") @@ ("client" :> c) : c \in { "Ana", "Mariana" } }

Limits == { 1, 10 }

Min(a, b) == IF a < b THEN a ELSE b

\* _search_memories, memory_manager.py:362-390: the files are read in the order
\* glob yields them, the matching ones collected until there are limit of them,
\* and the collected ones sorted by stored_at.
SearchResults(files, query, limit) ==
  LET matching == { files[id] : id \in { i \in DOMAIN files : MatchesQuery(files[i], query) } }
  IN  { r \in SUBSET matching : Cardinality(r) = Min(limit, Cardinality(matching)) }

\* search_episodic(query, limit), memory_manager.py:247-258
SearchEpisodic(query, limit) ==
  /\ \E r \in SearchResults(mem.episodic, query, limit) :
       mem_last' = [ NoResult EXCEPT !.op = "search_episodic", !.at = mem.clock,
                                     !.query = query, !.limit = limit,
                                     !.returned = TRUE, !.result = r ]
  /\ UNCHANGED << orch_vars, dispatch_vars, broker_vars, agent_vars, cli, wire, mem >>

\* get_episodic, memory_manager.py:218-220 and 345-360: the entry json.load reads
\* from the file, or None when there is no file.
ReadStr(text) == JsonLoadsValue(JsonDumpsValue(Str(text))).text

GetEpisodic(event_id) ==
  /\ mem_last' = [ NoResult EXCEPT
                     !.op = "get_episodic", !.id = event_id, !.at = mem.clock,
                     !.found = event_id \in DOMAIN mem.episodic,
                     !.returned = event_id \in DOMAIN mem.episodic,
                     !.result = IF event_id \in DOMAIN mem.episodic
                                THEN { [ mem.episodic[event_id] EXCEPT
                                           !.event_id = ReadStr(@),
                                           !.data.type = ReadStr(@),
                                           !.data.client = ReadStr(@) ] }
                                ELSE {} ]
  /\ UNCHANGED << orch_vars, dispatch_vars, broker_vars, agent_vars, cli, wire, mem >>

ConceptIds == { "test_concept", "photography_basics" }

\* The knowledge handed to the store: a dict of one key, with a value of each type.
KnowledgeData == { [ key |-> "definition", value |-> v ] : v \in CallerValues }

\* The events stored and read back by their identifier.
RecallIds == { "event1", "event2" }

\* A store that keeps all the concepts in one file.
SemanticFile_Shared(concept_id) == "semantic"

\* memory_manager.py:112: self.memory_types['semantic'] / f"{concept_id}.json"
SemanticFile(concept_id) == concept_id

\* store_semantic, memory_manager.py:93-121: json.dump writes the entry to the
\* file, over an earlier one of that name, and True is returned; when the
\* knowledge holds a value json cannot encode, the opened file is left with the
\* part written before the error and False is returned.  given is not in the
\* file: it is the knowledge as the caller handed it over.
SemanticEntry(concept_id, knowledge_data, t) ==
  [ concept_id |-> JsonDumpsValue(Str(concept_id)), type |-> "semantic", stored_at |-> t,
    knowledge |-> [ key |-> knowledge_data.key,
                    value |-> JsonDumpsValue(knowledge_data.value) ],
    whole |-> JsonDumpsValue(knowledge_data.value).json # "TypeError",
    given |-> knowledge_data ]

StoreSemantic(concept_id, knowledge_data) ==
  /\ mem' = [ mem EXCEPT !.semantic =
                (SemanticFile(concept_id)
                   :> SemanticEntry(concept_id, knowledge_data, mem.clock)) @@ @ ]
  /\ mem_last' = [ NoResult EXCEPT
                     !.op = "store_semantic", !.id = concept_id, !.at = mem.clock,
                     !.returned = SemanticEntry(concept_id, knowledge_data, mem.clock).whole ]
  /\ UNCHANGED << orch_vars, dispatch_vars, broker_vars, agent_vars, cli, wire >>

\* get_semantic, memory_manager.py:222-224 and 345-360: the entry json.load reads
\* from the file; None when there is no file or what is in it is not JSON.
GetSemantic(concept_id) ==
  /\ LET found == SemanticFile(concept_id) \in DOMAIN mem.semantic
         file == mem.semantic[SemanticFile(concept_id)]
     IN  mem_last' = [ NoResult EXCEPT
                         !.op = "get_semantic", !.id = concept_id, !.at = mem.clock,
                         !.found = found,
                         !.returned = found /\ file.whole,
                         !.result = IF found /\ file.whole
                                    THEN { [ concept_id |-> JsonLoadsValue(file.concept_id).text,
                                             type |-> file.type,
                                             stored_at |-> file.stored_at,
                                             knowledge |->
                                               [ key |-> file.knowledge.key,
                                                 value |-> JsonLoadsValue(file.knowledge.value) ] ] }
                                    ELSE {} ]
  /\ UNCHANGED << orch_vars, dispatch_vars, broker_vars, agent_vars, cli, wire, mem >>

\* A store that forgets the time-to-live.
ExpiresAt_NoTtl(t, ttl_hours) == t

\* memory_manager.py:196: expires_at = datetime.now() + timedelta(hours=ttl_hours)
ExpiresAt(t, ttl_hours) == t + ttl_hours

\* store_working, memory_manager.py:183-216
WorkingEntry(task_id, t, ttl_hours) ==
  [ task_id |-> task_id, type |-> "trabalho", stored_at |-> t,
    expires_at |-> ExpiresAt(t, ttl_hours), ttl_hours |-> ttl_hours ]

StoreWorking(task_id, ttl_hours) ==
  /\ mem' = [ mem EXCEPT !.trabalho =
                (task_id :> WorkingEntry(task_id, mem.clock, ttl_hours)) @@ @ ]
  /\ mem_last' = [ NoResult EXCEPT !.op = "store_working", !.id = task_id,
                                   !.at = mem.clock, !.returned = TRUE ]
  /\ UNCHANGED << orch_vars, dispatch_vars, broker_vars, agent_vars, cli, wire >>

\* memory_manager.py:240: datetime.now() > expires_at
Expired(memory, t) == t > memory.expires_at

\* delete_working, memory_manager.py:264-275
DeleteWorking(files, task_id) ==
  [ id \in DOMAIN files \ { task_id } |-> files[id] ]

\* get_working, memory_manager.py:234-245: the entry of the file, or None when
\* there is no file or the entry has expired, which also deletes the file.
GetWorking(task_id) ==
  /\ LET found == task_id \in DOMAIN mem.trabalho
         expired == found /\ Expired(mem.trabalho[task_id], mem.clock)
     IN  /\ mem' = IF expired
                   THEN [ mem EXCEPT !.trabalho = DeleteWorking(@, task_id) ]
                   ELSE mem
         /\ mem_last' = [ NoResult EXCEPT
                            !.op = "get_working", !.id = task_id, !.at = mem.clock,
                            !.found = found,
                            !.returned = found /\ ~expired,
                            !.result = IF found THEN { mem.trabalho[task_id] } ELSE {} ]
  /\ UNCHANGED << orch_vars, dispatch_vars, broker_vars, agent_vars, cli, wire >>

\* An hour passes.
MemTick ==
  /\ mem.clock < MaxClock
  /\ mem' = [ mem EXCEPT !.clock = @ + 1 ]
  /\ UNCHANGED << orch_vars, dispatch_vars, broker_vars, agent_vars, cli, wire, mem_last >>

(* ------------------------- command-line client ------------------------ *)

\* JarvisCLI.__init__, jarvis_cli.py:37-42
CliInit == cli = [ connection |-> "none", channel |-> FALSE, closes |-> 0 ]

\* JarvisCLI.connect, jarvis_cli.py:44-63: True with a connection and a channel,
\* or False when the broker is unreachable.
CliConnect ==
  /\ cli.connection = "none"
  /\ cli.closes = 0
  /\ \E reachable \in BOOLEAN :
       cli' = IF reachable
              THEN [ cli EXCEPT !.connection = "open", !.channel = TRUE ]
              ELSE cli
  /\ UNCHANGED << orch_vars, dispatch_vars, broker_vars, agent_vars, wire, mem, mem_last >>

\* JarvisCLI.disconnect, jarvis_cli.py:65-68: closes a connection that is there
\* and not closed yet.
CliConnectionAfterDisconnect(connection) ==
  IF connection = "open" THEN "closed" ELSE connection

CliDisconnect ==
  /\ cli.closes <= MaxCalls
  /\ cli' = [ cli EXCEPT !.connection = CliConnectionAfterDisconnect(@),
                         !.closes = @ + 1 ]
  /\ UNCHANGED << orch_vars, dispatch_vars, broker_vars, agent_vars, wire, mem, mem_last >>

LibInit == CliInit /\ WireInit /\ MemInit

(* --------------------------- specification ----------------------------- *)

vars == << orch_vars, dispatch_vars, broker_vars, agent_vars, lib_vars >>

BrokerInit ==
  /\ queues = NoQueues
  /\ bindings = {}

Init == OrchInit /\ DispatchInit /\ BrokerInit /\ AgentInit /\ LibInit

Next ==
  \/ OrchConnect
  \/ StartAgentMonitoring
  \/ PublishStartedReturn
  \/ \E body \in Inbox : DeliverToOrchestrator(body)
  \/ CheckAgentHealthStart
  \/ VisitAgent
  \/ PublishAlarmReturn
  \/ CheckAgentHealthReturn
  \/ PublishSystemStats
  \/ PublishStatsReturn
  \/ Wake
  \/ \E d \in Delays : Tick(d)
  \/ SignalHandler
  \/ MainLoopExit
  \/ Stop
  \/ PublishStoppingReturn

Spec == Init /\ [][Next]_vars

\* The dispatcher, called before, during and after the orchestrator's start.
NextDispatch ==
  \/ OrchConnect
  \/ StartAgentMonitoring
  \/ Stop
  \/ \E task_type \in TaskTypes : ExecuteDistributedTask(task_type)
  \/ SendTaskToAgent
  \/ DispatchReturn

SpecDispatch == Init /\ [][NextDispatch]_vars

\* The orchestrator from start() through its first sweep to stop(), the messages it
\* is delivered, and the calls other tasks of its loop make on it meanwhile.
NextCalls ==
  \/ OrchConnect
  \/ StartAgentMonitoring
  \/ PublishStartedReturn
  \/ \E body \in Inbox : DeliverToOrchestrator(body)
  \/ CheckAgentHealthStart
  \/ VisitAgent
  \/ CheckAgentHealthReturn
  \/ PublishSystemStats
  \/ PublishStatsReturn
  \/ SignalHandler
  \/ MainLoopExit
  \/ Stop
  \/ PublishStoppingReturn
  \/ \E task_type \in TaskTypes : ExecuteDistributedTask(task_type)
  \/ SendTaskToAgent
  \/ GetSystemStatus
  \/ DispatchReturn

SpecCalls == Init /\ [][NextCalls]_vars

\* The orchestrator after its first sweep, asleep with its consumer registered, as
\* an agent process is created.
InitAgent ==
  /\ now = 0
  /\ agents = [ a \in Roster |-> NewRecord ]
  /\ system_status = "running"
  /\ orch_pc = "sleep"
  /\ orch_conn = [ connection |-> "open", channel |-> TRUE, exchange |-> TRUE ]
  /\ shutdown_requested = FALSE
  /\ sweep = [ current_time |-> 0, idx |-> Len(expected_agents) + 1 ]
  /\ wake_at = SleepInterval
  /\ handled = 0
  /\ last = Step("stats_published", "", "system.stats", "", 0)
  /\ sweep_due = {}
  /\ sweep_pub = [ a \in Roster |-> 0 ]
  /\ fresh = {}
  /\ prev_due = {}
  /\ announced = {}
  /\ started = {}
  /\ queues = DeclareQueue(NoQueues, ManagementQueue)
  /\ bindings = { ManagementQueue }
  /\ DispatchInit
  /\ AgentInit
  /\ LibInit

\* One agent process from main() to the end of stop(), its consumer and the
\* orchestrator's over the broker's queues, and the other publishers.
NextAgent ==
  \/ AgentConnect
  \/ StartConsuming
  \/ PublishAgentStartedReturn
  \/ RunLoopEnds
  \/ AgentStop
  \/ PublishAgentStoppedReturn
  \/ AgentHandleMessage
  \/ \E i \in 1..Len(in_flight) : AgentHandlerResume(i)
  \/ \E m \in Traffic : OtherPublishes(m)
  \/ OrchConsume

SpecAgent == InitAgent /\ [][NextAgent]_vars

\* The orchestrator from start() through its first sweep, and one agent process
\* from main() to the end of stop(), each publishing and consuming over the
\* broker's queues, and the direct calls other code makes on the agent object.
NextStart ==
  \/ OrchConnect
  \/ StartAgentMonitoring
  \/ SystemStartedPublished
  \/ OrchConsume
  \/ CheckAgentHealthStart
  \/ VisitAgent
  \/ CheckAgentHealthReturn
  \/ PublishSystemStats
  \/ SystemStatsPublished
  \/ Stop
  \/ AgentConnect
  \/ StartConsuming
  \/ PublishAgentStartedReturn
  \/ RunLoopEnds
  \/ AgentStop
  \/ PublishAgentStoppedReturn
  \/ AgentHandleMessage
  \/ \E method \in Methods : AgentCall(method)

SpecStart == Init /\ [][NextStart]_vars

\* The two runtimes connect in either order while one workflow is dispatched and
\* the agent sends direct messages.
NextDirect ==
  \/ OrchConnect
  \/ StartAgentMonitoring
  \/ OrchConsume
  \/ AgentConnect
  \/ StartConsuming
  \/ PublishAgentStartedReturn
  \/ AgentHandleMessage
  \/ \E target \in DirectTargets : SendDirectMessage(target)
  \/ \E task_type \in TaskTypes : ExecuteDistributedTask(task_type)
  \/ SendTaskToAgent

SpecDirect == Init /\ [][NextDirect]_vars

\* The steps of the orchestrator's own coroutine, which the event loop resumes
\* whenever what it awaits has completed.
OrchProgress ==
  \/ PublishStartedReturn
  \/ CheckAgentHealthStart
  \/ VisitAgent
  \/ PublishAlarmReturn
  \/ CheckAgentHealthReturn
  \/ PublishSystemStats
  \/ PublishStatsReturn
  \/ Wake
  \/ SleepElapses
  \/ MainLoopExit
  \/ Stop
  \/ PublishStoppingReturn

\* The messages that reach an orchestrator being shut down: one of a monitored
\* agent and one that does not decode.
ShutdownInbox == { Broadcast("agent.started", "photo-agent"), NotJson }

\* The orchestrator under an event loop that keeps running it, with the messages
\* and signals that reach it.
NextShutdown ==
  \/ OrchConnect
  \/ StartAgentMonitoring
  \/ \E body \in ShutdownInbox : DeliverToOrchestrator(body)
  \/ \E d \in Delays : Tick(d)
  \/ SignalHandler
  \/ OrchProgress

SpecShutdown == Init /\ [][NextShutdown]_vars /\ WF_vars(OrchProgress)

\* The steps of the main loop and the passing of time.
SweepProgress ==
  \/ PublishStartedReturn
  \/ CheckAgentHealthStart
  \/ VisitAgent
  \/ PublishAlarmReturn
  \/ CheckAgentHealthReturn
  \/ PublishSystemStats
  \/ PublishStatsReturn
  \/ Wake
  \/ \E d \in Delays : TimePasses(d)

\* The events of one monitored agent: they make its record online, offline, or
\* leave it expected.
SweepInbox == { Broadcast(e, "photo-agent") : e \in EventTypes }

\* The main loop under an event loop that keeps running it, with the messages,
\* signals and errors that reach it.
NextSweep ==
  \/ OrchConnect
  \/ StartAgentMonitoring
  \/ \E body \in SweepInbox : DeliverToOrchestrator(body)
  \/ IterationRaises
  \/ SignalHandler
  \/ SweepProgress

SpecSweep == Init /\ [][NextSweep]_vars /\ WF_vars(SweepProgress)

\* social_media_agent/agent.py:41: the name the social-media agent gives BaseAgent
SocialAgentName == "social_media_agent"

\* orchestrator.py:61 and 338, 360: the roster entry and workflow target
SocialRosterName == FullRoster[3]

\* orchestrator.py:58-66: all the identities of the roster
FullRosterSet == { FullRoster[i] : i \in 1..Len(FullRoster) }

\* _start_agent_monitoring over the whole roster, then start() as in
\* StartAgentMonitoring.
MonitorFullRoster ==
  /\ orch_pc = "connected"
  /\ agents' = [ a \in FullRosterSet |-> NewRecord ]
  /\ system_status' = "running"
  /\ orch_pc' = "pub_started"
  /\ last' = Step("monitoring", "", "", "", 0)
  /\ UNCHANGED << now, orch_conn, shutdown_requested, sweep, wake_at, handled,
                  sweep_due, sweep_pub, fresh, prev_due, announced, started >>
  /\ UNCHANGED << dispatch_vars, broker_vars, agent_vars >>
  /\ UNCHANGED lib_vars

\* BaseAgent.start run by the social-media agent, base_agent.py:213-230: it
\* declares and binds the queue named after its name, consumes from it and
\* publishes agent.started with its name as agent_source.
SocialAgentStart ==
  /\ QueueName(SocialAgentName) \notin DOMAIN queues
  /\ bindings' = bindings \cup { QueueName(SocialAgentName) }
  /\ queues' = Fanout(DeclareQueue(queues, QueueName(SocialAgentName)),
                      bindings \cup { QueueName(SocialAgentName) },
                      Broadcast("agent.started", SocialAgentName))
  /\ UNCHANGED << orch_vars, dispatch_vars, agent_vars >>
  /\ UNCHANGED lib_vars

\* The orchestrator with its whole roster, the social-media agent, and the
\* workflows dispatched meanwhile.
NextIdentity ==
  \/ OrchConnect
  \/ MonitorFullRoster
  \/ PublishStartedReturn
  \/ SocialAgentStart
  \/ OrchConsume
  \/ \E task_type \in TaskTypes : ExecuteDistributedTask(task_type)
  \/ SendTaskToAgent
  \/ DispatchReturn

SpecIdentity == Init /\ [][NextIdentity]_vars

\* The start of the monitoring with messages waiting in the management queue,
\* and the loop that follows.
NextMonitor ==
  \/ OrchConnect
  \/ ConsumeRegistered
  \/ \E body \in SweepInbox : DeliverWhileConsuming(body)
  \/ InitialiseRegistry
  \/ \E body \in SweepInbox : DeliverToOrchestrator(body)
  \/ PublishStartedReturn
  \/ CheckAgentHealthStart
  \/ VisitAgent
  \/ PublishAlarmReturn
  \/ CheckAgentHealthReturn
  \/ PublishSystemStats
  \/ PublishStatsReturn
  \/ Wake
  \/ \E d \in Delays : Tick(d)

SpecMonitor == Init /\ [][NextMonitor]_vars

\* The second call of each close operation: the orchestrator from start() to a
\* shutdown and stop(), an agent process from main() to the end of stop(), and a
\* command-line client.
NextClose ==
  \/ OrchConnect
  \/ StartAgentMonitoring
  \/ SignalHandler
  \/ SystemStartedPublished
  \/ MainLoopExit
  \/ Stop
  \/ SystemStoppingPublished
  \/ StopAgain
  \/ AgentConnect
  \/ StartConsuming
  \/ PublishAgentStartedReturn
  \/ RunLoopEnds
  \/ AgentStop
  \/ PublishAgentStoppedReturn
  \/ AgentStopAgain
  \/ CliConnect
  \/ CliDisconnect

SpecClose == Init /\ [][NextClose]_vars

\* Every sender on every data of its caller.
NextWire ==
  \/ \E e \in WireEventTypes, data \in CallerData : PublishMessage(e, data)
  \/ \E t \in DirectTargets, data \in CallerData : SendDirect(t, data)
  \/ \E t \in DirectTargets, data \in CallerData : SendTask(t, data)
  \/ \E e \in WireEventTypes, data \in CallerData : PublishSystemEvent(e, data)
  \/ \E seen \in BOOLEAN : PublishSystemStatsData(seen)

SpecWire == Init /\ [][NextWire]_vars

\* The episodic memory: events stored and searched.
NextEpisodic ==
  \/ \E id \in EventIds, data \in EventData : StoreEpisodic(id, data)
  \/ \E query \in Queries, limit \in Limits : SearchEpisodic(query, limit)

SpecEpisodic == Init /\ [][NextEpisodic]_vars

\* Entries stored and read back by their identifier.
NextRecall ==
  \/ \E id \in RecallIds, data \in EventData : StoreEpisodic(id, data)
  \/ \E id \in RecallIds : GetEpisodic(id)
  \/ \E id \in ConceptIds, knowledge \in KnowledgeData : StoreSemantic(id, knowledge)
  \/ \E id \in ConceptIds : GetSemantic(id)

SpecRecall == Init /\ [][NextRecall]_vars

\* The working memory: entries stored and read as the hours pass.
NextWorking ==
  \/ \E id \in TaskIds, ttl \in TtlHours : StoreWorking(id, ttl)
  \/ \E id \in TaskIds : GetWorking(id)
  \/ MemTick

SpecWorking == Init /\ [][NextWorking]_vars

(* ------------------------- registry properties ------------------------- *)

\* The last step handled a decoded broadcast of this type from a rostered identity.
HandledFrom(event_type) ==
  /\ last.op = "handle"
  /\ last.ev = event_type
  /\ last.id \in DOMAIN agents

\* C1: after an agent.started broadcast from a rostered identity I is handled, I's
\* record is online, its last_seen is the handling time and its messages_received is
\* one more than before, whatever its status was.
C1_StartedSetsOnline ==
  HandledFrom("agent.started") =>
    /\ agents[last.id].status = "online"
    /\ agents[last.id].last_seen = now
    /\ agents[last.id].messages_received = last.count + 1

\* C1's case: agent.started from an identity whose record was unresponsive.
C1_Witness ==
  /\ HandledFrom("agent.started")
  /\ last.before = "unresponsive"
  /\ agents[last.id].status = "online"

\* C2: a sweep sets every record it finds silent for more than the threshold and not
\* yet unresponsive to unresponsive and puts exactly one agent.unresponsive naming it
\* on the exchange; the next sweep, no message handled in between, publishes none.
C2_SweepAlarmsOnce ==
  /\ (last.op = "visit" /\ last.id \in sweep_due) =>
       agents[last.id].status = "unresponsive"
  /\ orch_pc = "stats" => \A a \in sweep_due : sweep_pub[a] = 1
  /\ \A a \in prev_due : sweep_pub[a] = 0

\* C3: a record that was not online is online after a step only if that step handled
\* agent.started from its identity; no sweep and no other event makes it online.
C3_OnlineOnlyByStarted ==
  [][ \A a \in Roster :
        ( /\ a \in DOMAIN agents
          /\ agents[a].status # "online"
          /\ agents'[a].status = "online" )
        => ( last'.op = "handle" /\ last'.ev = "agent.started" /\ last'.id = a ) ]_vars

\* C3's case: another event from an unresponsive identity refreshes last_seen and
\* leaves the record unresponsive.
C3_Witness ==
  /\ HandledFrom("photos.processed")
  /\ last.before = "unresponsive"
  /\ agents[last.id].status = "unresponsive"
  /\ agents[last.id].last_seen = now

\* C4 as stated: a sweep leaves expected every record that is expected and from
\* whose identity no agent.started has been handled.
C4_ExpectedStaysExpected ==
  ( /\ last.op = "visit"
    /\ last.before = "expected"
    /\ last.id \notin started )
  => agents[last.id].status = "expected"

\* C4 amended: a sweep leaves expected every record that is expected and from whose
\* identity no event at all has been handled (last_seen unset), however late it runs.
C4_UnseenStaysExpected ==
  ( /\ last.op = "visit"
    /\ last.before = "expected"
    /\ agents[last.id].last_seen = None )
  => agents[last.id].status = "expected"

\* C4's case: a never-seen record visited by a sweep that runs after the threshold.
C4_Witness ==
  /\ last.op = "visit"
  /\ last.before = "expected"
  /\ agents[last.id].last_seen = None
  /\ sweep.current_time > SilenceThreshold
  /\ agents[last.id].status = "expected"

\* The sweep is suspended in the publish of agent.unresponsive for identity a.
AlarmInFlight(a) == orch_pc = "pub_alarm" /\ expected_agents[sweep.idx] = a

\* C5: whenever a record is unresponsive, the agent.unresponsive broadcast of that
\* transition was put on the exchange, whatever the broker answered the publish.
C5_UnresponsiveWasAnnounced ==
  \A a \in DOMAIN agents :
    (agents[a].status = "unresponsive" /\ ~AlarmInFlight(a)) => a \in announced

\* C12: after an agent.stopped broadcast from a rostered identity I is handled, I's
\* record is offline, whatever its status was before.
C12_StoppedSetsOffline ==
  HandledFrom("agent.stopped") => agents[last.id].status = "offline"

\* C12's case: agent.stopped from an identity the monitor had marked unresponsive.
C12_Witness ==
  /\ HandledFrom("agent.stopped")
  /\ last.before = "unresponsive"
  /\ agents[last.id].status = "offline"

\* C13: handling a broadcast from a rostered identity whose event_type is neither
\* agent.started nor agent.stopped sets last_seen to the handling time, adds one
\* to messages_received and leaves the status as it was.
C13_OtherEventKeepsStatus ==
  ( /\ last.op = "handle"
    /\ last.id \in DOMAIN agents
    /\ last.ev \notin { "agent.started", "agent.stopped" } )
  => /\ agents[last.id].status = last.before
     /\ agents[last.id].last_seen = now
     /\ agents[last.id].messages_received = last.count + 1

\* C13's case: another event from an identity that had announced its stop, handled
\* later than the stop.
C13_Witness ==
  /\ HandledFrom("photos.processed")
  /\ last.before = "offline"
  /\ agents[last.id].status = "offline"
  /\ agents[last.id].messages_received = 2
  /\ now > 0

\* A step that runs the handler on one delivered message.
HandlingStep == handled' = handled + 1

\* C14: handling a message changes at most the record of the message's
\* agent_source; it adds and removes no record, and a message whose agent_source
\* is not in the roster changes nothing in the registry.
C14_OnlySourceRecordChanges ==
  [][ HandlingStep =>
        /\ DOMAIN agents' = DOMAIN agents
        /\ \A a \in DOMAIN agents : a # last'.id => agents'[a] = agents[a]
        /\ last'.id \notin Roster => agents' = agents ]_vars

\* C14's case: the orchestrator's own broadcast comes back to it when a record of
\* the registry has already counted a message.
C14_Witness ==
  /\ last.op = "handle"
  /\ last.id = "orchestrator"
  /\ DOMAIN agents = Roster
  /\ \E a \in Roster : agents[a].messages_received = 1

\* A step of the sweep's loop over the roster.
SweepVisit == orch_pc = "check" /\ last'.op = "visit"

\* C15: a record of the registry changes only in a step that handles a delivered
\* message or in a visit of the sweep; execute_distributed_task and its sends, the
\* publishes of events and statistics, get_system_status and stop() change none.
C15_OnlyHandlerAndSweepWrite ==
  [][ /\ ( \E a \in DOMAIN agents \cap DOMAIN agents' : agents'[a] # agents[a] )
           => ( HandlingStep \/ SweepVisit )
      /\ ( dispatch' # dispatch \/ system_status' # system_status ) =>
           \A a \in DOMAIN agents \cap DOMAIN agents' : agents'[a] = agents[a] ]_vars

\* C15's case: a workflow was sent and get_system_status called on an orchestrator
\* that has stopped, and the record a message set online is still online.
C15_Witness ==
  /\ orch_pc = "stopped"
  /\ dispatch.pc = "returned"
  /\ dispatch.result = "status"
  /\ Len(outbox) = 3
  /\ \E a \in Roster : agents[a].status = "online" /\ agents[a].messages_received = 1

\* The positions of the main coroutine at which _start_agent_monitoring has run.
Monitoring ==
  { "pub_started", "loop_top", "check", "pub_alarm", "stats", "pub_stats", "sleep",
    "pub_stopping" }

\* C16: once monitoring has started the registry holds exactly the identities of
\* the roster; each record is created expected, never seen, with both counters 0,
\* and no later step adds or removes a record.
C16_RegistryIsRoster ==
  /\ [] ( orch_pc \in Monitoring => DOMAIN agents = Roster )
  /\ [][ /\ ( orch_pc = "connected" /\ orch_pc' \in Monitoring ) =>
              \A a \in Roster :
                agents'[a] = [ status |-> "expected", last_seen |-> None,
                               messages_received |-> 0, errors |-> 0 ]
         /\ DOMAIN agents = Roster => DOMAIN agents' = Roster ]_vars

\* C16's case: the orchestrator has stopped after sweeps and messages changed the
\* records, and the registry still holds the roster.
C16_Witness ==
  /\ orch_pc = "stopped"
  /\ DOMAIN agents = Roster
  /\ \E a \in Roster : agents[a].status = "unresponsive"
  /\ \E a \in Roster : agents[a].last_seen = None

(* ------------------------ agent runtime properties --------------------- *)

\* C6: a decoded direct message of kind task_request that the agent consumes makes
\* exactly one call of execute_task.
C6_TaskRequestExecuted ==
  ( /\ agent_last.op = "handle"
    /\ agent_last.kind = "task_request" )
  => agent_last.executed = 1

(* -------------------------- dispatcher properties ---------------------- *)

KnownWorkflows ==
  { "complete_photo_workflow", "marketing_campaign_launch", "client_onboarding" }

\* C7: execute_distributed_task returns initiated only when the message of every
\* step was published, and returns error when the send of some step failed.
C7_InitiatedOnlyIfAllSent ==
  ( /\ dispatch.pc = "returned"
    /\ dispatch.task_type \in KnownWorkflows )
  => /\ dispatch.result = "initiated" => Len(outbox) = Len(Workflow(dispatch.task_type))
     /\ send_failed # {} => dispatch.result = "error"

\* The recipients the workflows are to reach, in order.
C8_Targets ==
  [ client_onboarding |-> << "crm-agent", "photo-agent", "calendar-agent" >>,
    complete_photo_workflow |-> << "photo-agent", "marketing-agent", "social-media-agent" >>,
    marketing_campaign_launch |-> << "marketing-agent", "social-media-agent", "crm-agent" >> ]

\* C8: a dispatch of a known workflow whose every send was published has sent one
\* task_request per step, from orchestrator, to the listed recipients' queues in
\* the listed order, and returns initiated.
C8_WorkflowSendsInOrder ==
  ( /\ dispatch.pc = "returned"
    /\ dispatch.task_type \in KnownWorkflows
    /\ send_failed = {} )
  => /\ dispatch.result = "initiated"
     /\ [ i \in 1..Len(outbox) |-> outbox[i].body.obj.to ] = C8_Targets[dispatch.task_type]
     /\ \A i \in 1..Len(outbox) :
          /\ outbox[i].body.obj.type = "task_request"
          /\ outbox[i].body.obj.from = "orchestrator"
          /\ outbox[i].routing_key = QueueName(outbox[i].body.obj.to)

\* C8's case: client_onboarding dispatched on a working connection.
C8_Witness ==
  /\ dispatch.pc = "returned"
  /\ dispatch.task_type = "client_onboarding"
  /\ send_failed = {}
  /\ Len(outbox) = 3
  /\ orch_conn.connection = "open"

\* C9: when stop() has finished, normally or with an error, the connection of an
\* agent that had connected is closed.
C9_StopClosesConnection ==
  ( /\ agent_pc \in { "stopped", "stop_failed" }
    /\ agent_conn.connection # "none" )
  => agent_conn.connection = "closed"

\* C10: a message delivered to the agent's handler or to the orchestrator's is
\* acknowledged once, and not rejected, when the handler ends: after a success,
\* a body that does not decode, and an error in process_message alike.
C10_AckedOnce ==
  /\ agent_last.op = "handle" => agent_last.settle = << "ack" >>
  /\ last.op \in { "handle", "handle_error" } => last.settle = << "ack" >>

\* C10's case: process_message raised in the agent, and the orchestrator was
\* handed a body that did not decode.
C10_Witness ==
  /\ agent_last.op = "handle"
  /\ agent_last.case = "process_error"
  /\ agent_last.settle = << "ack" >>
  /\ last.op = "handle_error"
  /\ last.settle = << "ack" >>

(* ------------------------- consumption properties ---------------------- *)

\* C11: at most one invocation of the agent's handler is in progress: the callback
\* of a message is not started while the callback of an earlier message of the
\* same queue is suspended inside process_message.
C11_OneHandlerAtATime == Len(in_flight) <= 1

\* The agent's connect_to_rabbitmq has succeeded.
ConnectSucceeded ==
  /\ agent_conn.usable
  /\ agent_conn.channel
  /\ agent_conn.exchange
  /\ agent_conn.queue
  /\ QueueName(agent_name) \in bindings

\* A step in which the agent puts a message on an exchange.
AgentPublishes ==
  /\ agent_last' # agent_last \/ agent_hist' # agent_hist
  /\ \/ /\ agent_last'.op \in { "publish_started", "publish_stopped" }
        /\ agent_last'.case = "ok"
     \/ /\ agent_last'.op = "call"
        /\ agent_last'.kind \in { "publish_message", "send_direct_message" }
        /\ agent_last'.case = "ok"
     \/ /\ agent_last'.op = "handle"
        /\ agent_last'.event # ""

\* C17: the agent registers a consumer and puts a message on an exchange only
\* when its connect has succeeded; start_consuming, publish_message and
\* send_direct_message called on an agent that never connected raise RuntimeError,
\* and called after a failed connect end in an error; and when agent.started
\* is published the connection is open, the queue bound and the consumer registered.
C17_NothingBeforeConnect ==
  /\ [] ( agent_conn.consumer => ConnectSucceeded )
  /\ [] ( agent_last.op = "call" =>
            /\ agent_conn.connection = "none" => agent_last.case = "RuntimeError"
            /\ ~agent_conn.usable => agent_last.case # "ok" )
  /\ [] ( ( agent_last.op = "publish_started" /\ agent_last.case = "ok" ) =>
            /\ ConnectSucceeded
            /\ agent_conn.connection = "open"
            /\ agent_conn.consumer )
  /\ [][ AgentPublishes => ConnectSucceeded ]_vars

\* C17's case: after a connect that failed at the declaration of the queue,
\* start_consuming is called on the agent object and refuses.
C17_Witness ==
  /\ agent_last.op = "call"
  /\ agent_last.kind = "start_consuming"
  /\ agent_last.case = "RuntimeError"
  /\ agent_conn.exchange
  /\ ~agent_conn.queue
  /\ ~agent_conn.consumer

\* No queue holds an agent.started of the agent.
NoAgentStarted ==
  \A q \in DOMAIN queues :
    \A i \in 1..Len(queues[q]) : queues[q][i] # Broadcast("agent.started", agent_name)

\* C18: with the broker unreachable the agent makes one connection attempt, the
\* error reaches main() (whose finally calls stop), no consumer is registered and
\* no agent.started published; the orchestrator's start() likewise ends in error
\* without creating the registry or entering the main loop.
C18_UnreachableIsFatal ==
  /\ agent_hist.attempts <= 1
  /\ ( agent_last.op = "connect" /\ agent_last.case = "unreachable" ) =>
       agent_pc = "stop"
  /\ ( agent_hist.attempts = 1 /\ agent_conn.connection = "none" ) =>
       /\ agent_pc \in { "stop", "stopped" }
       /\ ~agent_conn.consumer
       /\ NoAgentStarted
  /\ ( orch_pc # "created" /\ orch_conn.connection = "none" ) =>
       /\ orch_pc \in { "stop", "stopped" }
       /\ orch_pc = "stop" => system_status = "error"
       /\ agents = NoAgents

\* C18's case: both processes found the broker unreachable and have ended.
C18_Witness ==
  /\ agent_pc = "stopped"
  /\ agent_hist.attempts = 1
  /\ agent_conn.connection = "none"
  /\ orch_pc = "stopped"
  /\ orch_conn.connection = "none"

\* C19: a body that does not decode is not handed to process_message; no error of
\* the decoding or of process_message leaves the handler; the consumer stays
\* registered and takes the next message of the queue; and in the orchestrator a
\* body that does not decode leaves the registry as it was.
C19_BadMessageDoesNotStopConsumer ==
  /\ [] ( agent_last.op = "handle" =>
            /\ agent_last.payload = "invalid" =>
                 ( ~agent_last.processed /\ agent_last.case = "decode_error" )
            /\ agent_last.settle = << "ack" >>
            /\ agent_conn.consumer )
  /\ [] ( ( /\ agent_last.op = "handle"
            /\ agent_last.case # "ok"
            /\ agent_pc \in { "pub_started", "running", "pub_stopped" }
            /\ agent_conn.connection = "open"
            /\ queues[QueueName(agent_name)] # << >> )
          => ENABLED AgentHandleMessage )
  /\ [] ( last.op = "handle_error" => last.settle = << "ack" >> )
  /\ [][ ( HandlingStep /\ last'.op = "handle_error" ) => agents' = agents ]_vars

\* C19's case: the agent has handled a message right after one that did not
\* decode, and the orchestrator has been handed a body that did not decode.
C19_Witness ==
  /\ agent_last.op = "handle"
  /\ agent_last.prev = "decode_error"
  /\ agent_last.case = "ok"
  /\ last.op = "handle_error"

\* A step in which the exchange takes a broadcast: the agent's agent.started,
\* agent.stopped or directly published event, or an event of the orchestrator.
BroadcastTaken(body) ==
  \/ /\ agent_last' # agent_last \/ agent_hist' # agent_hist
     /\ \/ agent_last'.op \in { "publish_started", "publish_stopped" }
        \/ agent_last'.op = "call" /\ agent_last'.kind = "publish_message"
     /\ agent_last'.case = "ok"
     /\ body = Broadcast(agent_last'.event, agent_name)
  \/ /\ last' # last
     /\ last'.op \in { "publish_started", "stats_published" }
     /\ last'.before = "ok"
     /\ body = Broadcast(last'.ev, "orchestrator")

\* The broadcasts of the two publishers.
Broadcasts ==
  { Broadcast(e, agent_name) : e \in { "agent.started", "agent.stopped", "photos.processed" } }
    \cup { Broadcast(e, "orchestrator") : e \in { "system.started", "system.stats" } }

\* C20: a broadcast the exchange takes from the agent or from the orchestrator is
\* appended once to every queue bound to the exchange at that time, the
\* publisher's own included, and to no other queue.
C20_BroadcastReachesBoundQueues ==
  [][ \A body \in Broadcasts :
        BroadcastTaken(body) =>
          /\ DOMAIN queues' = DOMAIN queues
          /\ \A q \in DOMAIN queues :
               queues'[q] = IF q \in bindings THEN Append(queues[q], body) ELSE queues[q] ]_vars

\* C20's case: the agent's agent.started has just reached its own queue and the
\* orchestrator's, behind what each already held.
C20_Witness ==
  /\ agent_last.op = "publish_started"
  /\ agent_last.case = "ok"
  /\ { ManagementQueue, QueueName(agent_name) } \subseteq bindings
  /\ \A q \in { ManagementQueue, QueueName(agent_name) } :
       /\ Len(queues[q]) >= 2
       /\ queues[q][Len(queues[q])] = Broadcast("agent.started", agent_name)

(* ------------------------ direct message properties -------------------- *)

\* The queue the runtime of an identity declares and consumes from:
\* orchestrator.py:141-144 and 160, base_agent.py:103-106 and 128.
RuntimeQueue(identity) ==
  IF identity = "orchestrator" THEN ManagementQueue ELSE QueueName(identity)

\* A step in which the default exchange takes body, addressed to identity: from
\* the agent's send_direct_message or from the orchestrator's _send_task_to_agent.
DirectTaken(identity, body) ==
  \/ /\ agent_hist' # agent_hist
     /\ agent_last'.op = "direct"
     /\ agent_last'.case = "ok"
     /\ agent_last'.kind = identity
     /\ body = DirectMessage(agent_name, identity)
  \/ /\ Len(outbox') = Len(outbox) + 1
     /\ outbox'[Len(outbox')].routing_key = QueueName(identity)
     /\ outbox'[Len(outbox')].body = body

\* The bodies the two senders address to an identity.
DirectBodies(identity) ==
  { DirectMessage(agent_name, identity) }
    \cup { TaskRequest("orchestrator", identity, Workflow(t)[i].type) :
             t \in TaskTypes \ { "unknown_task" }, i \in 1..3 }

Identities == DirectTargets \cup { "crm-agent", "social-media-agent", "calendar-agent" }

\* C21: a direct message addressed to an identity whose runtime has declared its
\* queue is appended to that queue, which is "<identity>.queue", and to no other.
C21_DirectReachesRecipientQueue ==
  [][ \A identity \in Identities : \A body \in DirectBodies(identity) :
        ( DirectTaken(identity, body) /\ RuntimeQueue(identity) \in DOMAIN queues ) =>
          /\ RuntimeQueue(identity) = QueueName(identity)
          /\ \A q \in DOMAIN queues' :
               queues'[q] = IF q = RuntimeQueue(identity)
                            THEN Append(queues[q], body) ELSE queues[q] ]_vars

\* C22: a direct message addressed to an identity whose queue is not declared yet
\* is kept by the broker in the queue of that name.
C22_EarlyDirectRetained ==
  [][ \A identity \in Identities : \A body \in DirectBodies(identity) :
        ( DirectTaken(identity, body) /\ QueueName(identity) \notin DOMAIN queues ) =>
          /\ QueueName(identity) \in DOMAIN queues'
          /\ \E i \in 1..Len(queues'[QueueName(identity)]) :
               queues'[QueueName(identity)][i] = body ]_vars

\* s is a prefix of t.
IsPrefix(s, t) == Len(s) <= Len(t) /\ SubSeq(t, 1, Len(s)) = s

\* C24: a step of the workflow whose send fails leaves the accepted messages and
\* every queue as they were, and no step of the workflow takes anything out of
\* a queue.
C24_NoRollback ==
  [][ ( dispatch.pc = "sending" /\ dispatch' # dispatch ) =>
        /\ send_failed' # send_failed => ( outbox' = outbox /\ queues' = queues )
        /\ IsPrefix(outbox, outbox')
        /\ \A q \in DOMAIN queues :
             q \in DOMAIN queues' /\ IsPrefix(queues[q], queues'[q]) ]_vars

\* C24's case: the third send of the client onboarding has failed after the
\* second was accepted, and the photo agent's queue still holds that message.
C24_Witness ==
  /\ dispatch.task_type = "client_onboarding"
  /\ dispatch.pc = "returned"
  /\ 3 \in send_failed
  /\ QueueName(agent_name) \in DOMAIN queues
  /\ \E i \in 1..Len(outbox) : \E j \in 1..Len(queues[QueueName(agent_name)]) :
       /\ outbox[i].routing_key = QueueName(agent_name)
       /\ queues[QueueName(agent_name)][j] = outbox[i].body

(* --------------------------- close properties ------------------------- *)

\* A second stop() of the orchestrator ends in status stopped with the connection
\* closed and puts nothing on any queue.
OrchSecondStopQuiet ==
  StopAgain => ( /\ queues' = queues
                 /\ system_status' = "stopped"
                 /\ orch_conn'.connection # "open" )

\* A second disconnect() of the client raises nothing and leaves the connection
\* as the first one left it.
CliSecondDisconnectQuiet ==
  ( CliDisconnect /\ cli.closes >= 1 ) => cli'.connection = cli.connection

\* A second stop() of an agent raises nothing, publishes nothing and leaves the
\* connection as the first one left it.
AgentSecondStopQuiet ==
  AgentStopAgain => ( /\ agent_last'.case # "raised"
                      /\ queues' = queues
                      /\ agent_conn' = agent_conn )

C27_OrchAndCliCloseTwice == [][OrchSecondStopQuiet /\ CliSecondDisconnectQuiet]_vars

C27_OrchAndCliWitness == last.op = "stop_again" /\ cli.closes >= 2 /\ cli.connection = "closed"

\* C27: calling the close operation of a runtime or client a second time raises no
\* error and has no further observable effect, for BaseAgent.stop,
\* JarvisOrchestrator.stop and JarvisCLI.disconnect.
C27_SecondCloseIsQuiet ==
  [][OrchSecondStopQuiet /\ CliSecondDisconnectQuiet /\ AgentSecondStopQuiet]_vars

(* ------------------------- main loop properties ------------------------ *)

\* With no agent seen yet the iteration does hand system.stats to the exchange.
C26_StatsWhenNoAgentSeen ==
  [][ ( orch_pc = "stats" /\ orch_pc' # "stats" /\ StatsEncodable )
        => orch_pc' = "pub_stats" ]_vars

\* C26: every iteration of the main loop, after its health check, hands one
\* system.stats event to the exchange, whatever the registry holds (last_seen
\* unset or set) and whether or not the check raised an alarm.
C26_StatsEveryIteration ==
  [][ ( orch_pc = "stats" /\ orch_pc' # "stats" ) => orch_pc' = "pub_stats" ]_vars

\* Once the flag is set the loop starts no sweep: from its test it only leaves.
NoSweepAfterShutdown ==
  ( shutdown_requested /\ orch_pc = "loop_top" /\ orch_pc' # orch_pc ) => orch_pc' = "stop"

\* A message handled while the flag is set is handled whole: the record of a known
\* sender is updated, the delivery is settled, the loop is where it was.
HandlerCompletesDuringShutdown ==
  ( shutdown_requested /\ handled' # handled )
    => /\ Len(last'.settle) = 1
       /\ orch_pc' = orch_pc
       /\ ( last'.op = "handle" /\ last'.id \in DOMAIN agents )
            => agents'[last'.id].messages_received = last'.count + 1

Stopped ==
  /\ orch_pc = "stopped"
  /\ system_status = "stopped"
  /\ orch_conn.connection = "closed"
  /\ last.ev = "system.stopping"

Stamped(message_data) ==
  /\ message_data.timestamp = Timestamp
  /\ wire.op = "publish_message"
       => /\ message_data.agent_source = Str(agent_name)
          /\ message_data.event_type = Str(wire.arg)
          /\ message_data.payload = "data"
  /\ wire.op = "send_direct_message"
       => /\ message_data.from = Str(agent_name)
          /\ message_data.to = Str(wire.arg)
          /\ message_data.type = Str("direct_message")
          /\ message_data.payload = "data"
  /\ wire.op = "_send_task_to_agent"
       => /\ message_data.from = Str("orchestrator")
          /\ message_data.to = Str(wire.arg)
          /\ message_data.type = Str("task_request")
          /\ message_data.payload = "task"
  /\ wire.op \in { "_publish_system_event", "_publish_system_stats" }
       => /\ message_data.agent_source = Str("orchestrator")
          /\ message_data.event_type = Str(wire.arg)
          /\ message_data.payload = "data"

\* C23: a broadcast of publish_message carries the agent's own identity in
\* agent_source and a message of send_direct_message carries it in from (the
\* orchestrator's carry orchestrator), for every event type and data of the
\* caller: the data is nested under data or task and overrides neither the
\* source, nor the recipient, nor the timestamp.
C23_SenderStamped ==
  wire.op # "init"
    => /\ Stamped(wire.built)
       /\ wire.built.data = wire.data
       /\ wire.outcome = "ok" => Stamped(wire.decoded)

C23_Witness ==
  /\ wire.op = "publish_message"
  /\ wire.data = [ key |-> "agent_source", value |-> Str("Ana") ]
  /\ wire.outcome = "ok"
  /\ wire.decoded.agent_source = Str(agent_name)

\* The data json has a type of its own for: str, int, list, dict with str keys.
JsonNative(data) ==
  \/ data.value.type \in { "str", "int", "list" }
  \/ data.value.type = "dict" /\ data.value.keys = "str"

\* An envelope whose data is of JSON's own types is decoded as it was built.
C28_RoundTripJsonNative ==
  ( wire.op # "init" /\ JsonNative(wire.data) )
    => ( wire.outcome = "ok" /\ wire.decoded = wire.built )

C28_JsonNativeWitness ==
  wire.op = "send_direct_message" /\ JsonNative(wire.data) /\ wire.decoded = wire.built

\* C28: every envelope built by publish_message, send_direct_message or one of
\* the orchestrator's senders is decoded by the receiver into an envelope equal
\* to the one encoded, field by field, the nested payload included.
C28_RoundTrip ==
  wire.op # "init" => ( wire.outcome = "ok" /\ wire.decoded = wire.built )

(* --------------------------- memory properties ------------------------- *)

StoredEvents == { mem.episodic[id] : id \in DOMAIN mem.episodic }

\* The stored events whose data has, under each key of the query, the value of
\* the query.
EventsMatching(query) ==
  { e \in StoredEvents : \A k \in DOMAIN query : k \in DOMAIN e.data /\ e.data[k] = query[k] }

\* A query on client alone returns, up to the limit, all the events of that client.
C29_ClientEventsReturned ==
  ( mem_last.op = "search_episodic" /\ DOMAIN mem_last.query = { "client" } )
    => \/ EventsMatching(mem_last.query) \subseteq mem_last.result
       \/ Cardinality(mem_last.result) = mem_last.limit

C29_ClientWitness ==
  /\ mem_last.op = "search_episodic"
  /\ mem_last.query = ( "client" :> "Mariana" )
  /\ Cardinality(mem_last.result) = 2
  /\ mem_last.result = EventsMatching(mem_last.query)

\* C29: search_episodic(query) returns, up to the limit, every stored event whose
\* data matches each key of the query, and no other: the query on type photo
\* returns exactly the photo events, a query on client exactly the events of that
\* client.
C29_SearchReturnsMatchingEvents ==
  mem_last.op = "search_episodic"
    => /\ mem_last.result \subseteq EventsMatching(mem_last.query)
       /\ Cardinality(mem_last.result)
            = Min(mem_last.limit, Cardinality(EventsMatching(mem_last.query)))

\* What the last get_working found in the file.
Found == CHOOSE e \in mem_last.result : TRUE

\* The result of a get_working, by the time-to-live of the entry it found.
GetWorkingByTtl ==
  mem_last.op = "get_working"
    => /\ ~mem_last.found => ~mem_last.returned
       /\ mem_last.found
            => /\ mem_last.at < Found.stored_at + Found.ttl_hours => mem_last.returned
               /\ mem_last.at > Found.stored_at + Found.ttl_hours
                    => /\ ~mem_last.returned
                       /\ mem_last.id \notin DOMAIN mem.trabalho

\* Only store_working brings an entry into being.
OnlyStoreAdds ==
  DOMAIN mem'.trabalho \subseteq DOMAIN mem.trabalho
    \/ mem_last'.op = "store_working"

Got == CHOOSE e \in mem_last.result : TRUE

\* get_episodic returns the entry of the file of that name, whole.
EpisodicRecalled ==
  ( mem_last.op = "get_episodic" /\ mem_last.id \in DOMAIN mem.episodic )
    => /\ mem_last.returned
       /\ Got.event_id = mem_last.id
       /\ Got.data = mem.episodic[mem_last.id].data

\* The file of the concept is there and its last store returned True.
SemanticStored(concept_id) ==
  /\ SemanticFile(concept_id) \in DOMAIN mem.semantic
  /\ mem.semantic[SemanticFile(concept_id)].whole

\* get_semantic returns the knowledge as it was handed to the store.
SemanticRecalled ==
  /\ mem_last.returned
  /\ Got.concept_id = mem_last.id
  /\ Got.knowledge = mem.semantic[SemanticFile(mem_last.id)].given

\* C31 as stated: after a store has returned True, the get of that identifier
\* returns an entry with that identifier whose data or knowledge equals what was
\* stored, until the next store under the identifier.
C31_GetReturnsStored ==
  /\ EpisodicRecalled
  /\ ( mem_last.op = "get_semantic" /\ SemanticStored(mem_last.id) ) => SemanticRecalled

\* C31: after a store of data made of JSON's own types (str, int, list, dict with
\* str keys) has returned True, the get of that identifier returns an entry with
\* that identifier whose data or knowledge equals what was stored, until the next
\* store under the identifier.
C31_GetReturnsStoredJson ==
  /\ EpisodicRecalled
  /\ ( /\ mem_last.op = "get_semantic"
       /\ SemanticStored(mem_last.id)
       /\ JsonNative(mem.semantic[SemanticFile(mem_last.id)].given) )
       => SemanticRecalled

C31_Witness ==
  /\ mem_last.op = "get_semantic"
  /\ SemanticStored(mem_last.id)
  /\ mem.semantic[SemanticFile(mem_last.id)].given.value.type = "list"
  /\ Cardinality(DOMAIN mem.semantic) = 2
  /\ Got.knowledge.value.type = "list"

(* ---------------------------- sweep properties ------------------------- *)

\* The record has been seen and n messages of its agent have been handled.
SeenWith(a, n) ==
  /\ a \in DOMAIN agents
  /\ agents[a].last_seen # None
  /\ agents[a].messages_received = n

\* Unless the agent sends again or a shutdown is requested.
SilenceEnds(a, n) ==
  \/ shutdown_requested
  \/ /\ a \in DOMAIN agents
     /\ agents[a].status = "unresponsive" \/ agents[a].messages_received # n

\* The visit of a record silent for more than the threshold leaves it unresponsive.
SilentVisitDemotes ==
  ( /\ orch_pc = "check"
    /\ last'.op = "visit"
    /\ sweep.idx <= Len(expected_agents)
    /\ agents[expected_agents[sweep.idx]].last_seen # None
    /\ sweep.current_time - agents[expected_agents[sweep.idx]].last_seen > SilenceThreshold )
    => agents'[expected_agents[sweep.idx]].status = "unresponsive"

\* After an error the loop sleeps and comes back to its test.
ErrorKeepsLoop == ( last.op = "error" /\ orch_pc = "sleep" ) ~> ( orch_pc = "loop_top" )

\* C32: a rostered agent that has been seen and sends no further event is, unless
\* the orchestrator is shut down, eventually unresponsive, from the first sweep
\* after its silence exceeds the threshold, whether it was online, offline or
\* expected; sweeps go on without messages and after an iteration raised an error.
C32_SilentAgentDemoted ==
  /\ \A a \in Roster, n \in 1..(MaxHandled + 1) : SeenWith(a, n) ~> SilenceEnds(a, n)
  /\ [][SilentVisitDemotes]_vars
  /\ ErrorKeepsLoop

C32_Witness ==
  /\ last.op = "visit"
  /\ last.before = "offline"
  /\ agents[last.id].status = "unresponsive"
  /\ now > MaxTime

\* The sweep is in progress: between its first line and its return.
InSweep == orch_pc \in { "check", "pub_alarm" }

\* A step of the handler.
HandlerStep == handled' # handled

\* The handler runs only while the loop is suspended and leaves the loop where it is.
HandlerAtSuspension ==
  HandlerStep => ( orch_pc \in Suspended /\ orch_pc' = orch_pc /\ sweep' = sweep )

\* A step of the sweep writes at most the record it visits, and no record that
\* was updated since the sweep began.
SweepKeepsUpdates ==
  ( InSweep /\ ~HandlerStep ) =>
    \A a \in DOMAIN agents :
      ( \/ orch_pc = "pub_alarm"
        \/ a # expected_agents[IF sweep.idx <= Len(expected_agents) THEN sweep.idx ELSE 1]
        \/ agents[a].last_seen # None /\ agents[a].last_seen >= sweep.current_time )
        => agents'[a] = agents[a]

\* The handler of an agent.started of a rostered identity, run while the sweep is
\* suspended, leaves the record online and seen no earlier than the sweep began:
\* a record the rest of the sweep keeps as it is.
StartedDuringSweep ==
  ( HandlerStep /\ InSweep /\ last'.op = "handle" /\ last'.ev = "agent.started"
    /\ last'.id \in DOMAIN agents )
    => /\ agents'[last'.id].status = "online"
       /\ agents'[last'.id].last_seen >= sweep'.current_time
       /\ \A a \in DOMAIN agents \ { last'.id } : agents'[a] = agents[a]

\* C33: the handler runs only at the suspension points of the loop, the visit of a
\* record is one step, and the sweep never overwrites what a handler wrote while
\* it was suspended: a record whose agent.started is handled during the
\* suspension is online when the sweep completes.
C33_SweepHandlerInterleaving ==
  /\ [][HandlerAtSuspension]_vars
  /\ [][SweepKeepsUpdates]_vars
  /\ [][StartedDuringSweep]_vars

C33_Witness ==
  /\ last.op = "sweep_end"
  /\ \E a \in sweep_due : agents[a].status = "online" /\ agents[a].last_seen = sweep.current_time

(* --------------------------- startup properties ------------------------ *)

\* The handler has consumed an agent.started of a rostered identity.
StartedConsumed ==
  HandlerStep /\ last'.op = "handle" /\ last'.ev = "agent.started" /\ last'.id \in Roster

\* C34: every agent.started of a rostered identity that the orchestrator
\* consumes, also one that was waiting in the queue when the consumer was
\* registered, is applied to the record of that identity, and the initialisation
\* of the registry does not undo it.
C34_ConsumedStartedApplied ==
  /\ [][ StartedConsumed =>
           /\ last'.id \in DOMAIN agents'
           /\ agents'[last'.id].status = "online"
           /\ agents'[last'.id].messages_received >= 1 ]_vars
  /\ [][ \A a \in DOMAIN agents : a \in DOMAIN agents' /\ agents'[a].messages_received >= agents[a].messages_received ]_vars

\* Once the registry is populated, a consumed agent.started is applied.
StartedAppliedOncePopulated ==
  [][ ( StartedConsumed /\ orch_pc # "consuming" ) =>
        /\ last'.id \in DOMAIN agents'
        /\ agents'[last'.id].status = "online" ]_vars

(* --------------------------- identity properties ----------------------- *)

\* The orchestrator, its registry populated, handles the agent.started of the
\* social-media agent.
SocialStartedHandled ==
  /\ HandlerStep
  /\ SocialRosterName \in DOMAIN agents
  /\ last'.op = "handle" /\ last'.ev = "agent.started" /\ last'.id = SocialAgentName

\* The broker takes a task message addressed to the roster's social-media
\* identity while the social-media agent has its queue.
SocialTaskTaken ==
  /\ Len(outbox') = Len(outbox) + 1
  /\ outbox'[Len(outbox')].routing_key = QueueName(SocialRosterName)
  /\ QueueName(SocialAgentName) \in DOMAIN queues

\* The record of the roster's identity is online once the agent's start is handled.
SocialRecordOnline == SocialStartedHandled => agents'[SocialRosterName].status = "online"

\* The task message is appended to the queue the agent consumes.
SocialTaskArrives ==
  SocialTaskTaken =>
    queues'[QueueName(SocialAgentName)] =
      Append(queues[QueueName(SocialAgentName)], outbox'[Len(outbox')].body)

\* C35: the roster identity and workflow target social-media-agent is the
\* identity under which the social-media agent connects: when the agent starts,
\* the roster record becomes online, and a task message addressed to the
\* identity arrives on the queue the agent consumes.
C35_RosterIdentityIsAgentIdentity ==
  /\ [][SocialRecordOnline]_vars
  /\ [][SocialTaskArrives]_vars

(* --------------------------- workflow properties ------------------------ *)

RECURSIVE PublishedOf(_, _, _)
\* What the broker was handed of the first n steps, in order, when the sends of
\* the steps in failed did not publish.
PublishedOf(steps, n, failed) ==
  IF n = 0 THEN << >>
  ELSE LET before == PublishedOf(steps, n - 1, failed)
           st == steps[n]
       IN  IF n \in failed THEN before
           ELSE Append(before, [ routing_key |-> QueueName(st.agent),
                                 body |-> TaskRequest("orchestrator", st.agent, st.type) ])

\* The number of steps of the current workflow attempted so far.
Attempted ==
  IF dispatch.pc = "sending" THEN dispatch.step - 1
  ELSE IF dispatch.pc = "returned" THEN Len(Workflow(dispatch.task_type))
  ELSE 0

\* One call of _send_task_to_agent by the workflow.
SendStep == dispatch.pc = "sending" /\ dispatch' # dispatch

\* Whatever the outcome of a send, the workflow goes on to its next step, or
\* returns after the last.
NextStepFollows ==
  SendStep =>
    IF dispatch.step < Len(Workflow(dispatch.task_type))
    THEN dispatch'.pc = "sending" /\ dispatch'.step = dispatch.step + 1
    ELSE dispatch'.pc = "returned" /\ dispatch'.result = WorkflowResult

\* The steps attempted are the first ones, each once: the broker was handed
\* those that did not fail, in the workflow's order, and the failed sends are
\* among the attempted.
AttemptedInOrder ==
  dispatch.pc \in { "sending", "returned" } =>
    /\ send_failed \subseteq 1..Attempted
    /\ outbox = PublishedOf(Workflow(dispatch.task_type), Attempted, send_failed)

\* C36: a failed send of a workflow step does not prevent the following steps
\* from being sent: every step is attempted exactly once, in order, whatever the
\* outcomes of the earlier ones.
C36_FailedSendDoesNotStopWorkflow ==
  /\ []AttemptedInOrder
  /\ [][NextStepFollows]_vars

C36_Witness ==
  /\ dispatch.pc = "returned"
  /\ dispatch.result = WorkflowResult
  /\ send_failed = { 1 }
  /\ Len(outbox) = 2

(* ---------------------------- alarm properties -------------------------- *)

\* The events that change a status.
LifecycleEvents == { "agent.started", "agent.stopped" }

\* The sweep starts the publish of agent.unresponsive for the record it visits.
AlarmIssued(a) ==
  /\ orch_pc = "check" /\ orch_pc' = "pub_alarm"
  /\ expected_agents[sweep.idx] = a

\* The publish of agent.unresponsive for a has succeeded.
AlarmBroadcast(a) ==
  /\ orch_pc = "pub_alarm"
  /\ last'.op = "alarm_published" /\ last'.id = a

\* The handler has taken an event of a.
HandledOf(a) == HandlerStep /\ last'.op = "handle" /\ last'.id = a

\* An alarm is issued for a record that was not unresponsive, and leaves it so.
AlarmArmsOnce ==
  \A a \in Roster :
    AlarmIssued(a) => ( agents[a].status # "unresponsive" /\ agents'[a].status = "unresponsive" )

\* Only the handler of a lifecycle event of the identity takes a record out of
\* unresponsive.
OnlyLifecycleRevives ==
  \A a \in DOMAIN agents :
    ( agents[a].status = "unresponsive" /\ agents'[a].status # "unresponsive" )
      => ( HandledOf(a) /\ last'.ev \in LifecycleEvents )

\* Another event of an unresponsive identity refreshes last_seen and leaves the
\* status.
OtherEventRefreshes ==
  \A a \in DOMAIN agents :
    ( HandledOf(a) /\ last'.ev \notin LifecycleEvents /\ agents[a].status = "unresponsive" )
      => ( agents'[a].status = "unresponsive" /\ agents'[a].last_seen = now )

\* No broadcast for an identity whose last broadcast was followed by no
\* lifecycle event of it.
NoSecondBroadcast == \A a \in Roster : AlarmBroadcast(a) => a \notin announced

\* C37: between two agent.unresponsive broadcasts for one identity the
\* orchestrator has handled an agent.started or agent.stopped of that identity;
\* an event of another type from an unresponsive agent refreshes last_seen and
\* does not re-arm the alarm.
C37_AlarmRearmedByLifecycleOnly ==
  /\ [][AlarmArmsOnce]_vars
  /\ [][OnlyLifecycleRevives]_vars
  /\ [][OtherEventRefreshes]_vars
  /\ [][NoSecondBroadcast]_vars

C37_Witness ==
  /\ last.op = "handle"
  /\ last.ev \notin LifecycleEvents
  /\ last.before = "unresponsive"
  /\ last.id \in announced
  /\ agents[last.id].last_seen = now

\* A second broadcast for an identity, after its agent.started revived the record.
SecondBroadcast ==
  /\ last.op = "alarm_published"
  /\ last.id \in started
  /\ agents[last.id].messages_received = 2
  /\ agents[last.id].last_seen >= SilenceThreshold

(* ------------------------ unknown task properties ----------------------- *)

\* The call of execute_distributed_task with a type that is none of the three.
UnknownTaskCalled ==
  /\ dispatch.pc = "idle"
  /\ dispatch'.pc # "idle"
  /\ dispatch'.task_type \notin KnownWorkflows

\* The call returns at once, leaves every queue alone and hands the broker nothing.
UnknownTaskSendsNothing ==
  UnknownTaskCalled =>
    /\ dispatch'.pc = "returned"
    /\ dispatch'.result = "error"
    /\ outbox' = << >>
    /\ queues' = queues

\* What it returns is an error whose message ends with the type.
UnknownTaskReturnsError ==
  ( dispatch.pc = "returned" /\ dispatch.task_type \notin KnownWorkflows ) =>
    /\ dispatch.result = "error"
    /\ outbox = << >>
    /\ send_failed = {}
    /\ ResultMessage(dispatch.task_type) = Unrecognised \o dispatch.task_type

\* C38: execute_distributed_task with a task type that is none of the three
\* workflows returns status error, naming the type, and sends no direct message.
C38_UnknownTaskIsError ==
  /\ []UnknownTaskReturnsError
  /\ [][UnknownTaskSendsNothing]_vars

C38_Witness ==
  /\ dispatch.pc = "returned"
  /\ dispatch.task_type = "unknown_task"
  /\ dispatch.result = "error"
  /\ orch_conn.connection = "open"

(* --------------------------- registry properties ------------------------ *)

\* A record never seen is expected and has counted no message.
UnseenIsExpected ==
  \A a \in DOMAIN agents :
    agents[a].last_seen = None =>
      ( agents[a].status = "expected" /\ agents[a].messages_received = 0 )

\* A status that has left expected does not come back to it, and last_seen,
\* once set, stays set.
NoWayBackToExpected ==
  \A a \in DOMAIN agents :
    /\ a \in DOMAIN agents'
    /\ agents[a].status # "expected" => agents'[a].status # "expected"
    /\ agents[a].last_seen # None => agents'[a].last_seen # None

\* The visit of a record leaves it expected only if it was.
SweepNeverResets ==
  ( orch_pc = "check" /\ last'.op = "visit" ) =>
    \A a \in DOMAIN agents : agents'[a].status = "expected" => agents[a] = agents'[a]

\* C39: a record whose last_seen is unset is expected with messages_received 0,
\* so the sweep never resets a record to expected: a status that has left
\* expected never becomes expected again, and last_seen once set is never unset.
C39_ExpectedOnlyBeforeFirstMessage ==
  /\ []UnseenIsExpected
  /\ [][NoWayBackToExpected]_vars
  /\ [][SweepNeverResets]_vars

C39_Witness ==
  /\ last.op = "visit"
  /\ agents[last.id].last_seen = None
  /\ agents[last.id].status = "expected"
  /\ \E b \in DOMAIN agents : agents[b].status = "unresponsive" /\ agents[b].messages_received = 2

(* ---------------------------- status properties ------------------------- *)

\* orchestrator.py:165, 185, 189, 236: the values a status is given
StatusValues == { "expected", "online", "offline", "unresponsive" }

\* Every status is one of the four and the four counts add up to the total.
SummaryAddsUp ==
  /\ \A a \in DOMAIN agents : agents[a].status \in StatusValues
  /\ AgentsSummary.online + AgentsSummary.offline + AgentsSummary.unresponsive
       + AgentsSummary.expected = AgentsSummary.total
  /\ AgentsSummary.total = RosterSize

\* A call of get_system_status.
StatusCalled == dispatch.pc = "idle" /\ dispatch'.pc = "returned" /\ dispatch'.result = "status"

\* C40: whenever get_system_status is called, every record's status is one of
\* expected, online, offline and unresponsive, and the four counts of
\* agents_summary add up to its total, the size of the roster.
C40_SummaryCountsAddUp == [][ StatusCalled => SummaryAddsUp ]_vars

\* From the creation of the records on, the summary adds up.
SummaryAddsUpOncePopulated == agents # << >> => SummaryAddsUp

====
